---- MODULE Spec2Model ----
(***************************************************************************)
(* A model of slimchain's TxEngine (slimchain-tx-engine/src/lib.rs) and of *)
(* the block commit functions (slimchain-chain/src/behavior/commit.rs).    *)
(*                                                                         *)
(* TxEngine: one producer thread calls push_task, one consumer thread      *)
(* calls pop_result / pop_or_wait_result, NumWorkers worker threads run    *)
(* TxEngineWorkerInstance::run, and the owner may drop the engine.  Every  *)
(* action is one access to shared memory (a queue operation or an atomic)  *)
(* together with the thread-local code that follows it.                    *)
(*                                                                         *)
(* crossbeam is a library: Injector, Worker/Stealer, SegQueue, ArrayQueue  *)
(* and Parker are modelled by their documented behaviour.  A steal that    *)
(* finds its queue empty reports Empty, one that finds a task may lose the *)
(* race for it and report Retry; an injector batch holds any number of     *)
(* tasks from 1 to the length of the injector; Parker::park returns only   *)
(* once the token has been set by Unparker::unpark (no spurious wake-up);  *)
(* a Backoff becomes completed after some number of snoozes.               *)
(***************************************************************************)
EXTENDS Integers, Sequences, FiniteSets, TLC

\* ------------------------------------------------------------ bounds
\* threads of TxEngine::new
NumWorkers == 2
\* number of tasks the producer creates
MaxTasks == 2
\* block heights of the proposals handed to the commit functions
MaxHeight == 2

Workers == 1..NumWorkers
Tasks == 1..MaxTasks
NoTask == 0

VARIABLES
    \* ---- TxEngine
    task_queue,       \* the global Injector<TxTask>: FIFO of task ids
    local_task_queue, \* per worker: Worker<TxTask> (FIFO)
    result_queue,     \* SegQueue<TxTaskOutput>: FIFO of task ids
    unparker_queue,   \* ArrayQueue<Unparker>: FIFO of workers, capacity threads
    shutdown_flag,    \* AtomicBool
    remaining_tasks,  \* AtomicUsize
    \* ---- worker threads
    pc,               \* per worker: position in run / wait_until_task / find_task
    task,             \* per worker: the task it dequeued (NoTask: none)
    backoff,          \* per worker: the Backoff of wait_until_task is_completed
    peerIdx,          \* per worker: next stealer of self.stealers to try
    sawRetry,         \* per worker: some steal of this search reported Retry
    token,            \* per worker: its Parker has been unparked
    \* ---- client threads
    nextId,           \* TxTaskId::next_id
    prodPc, prodTask, \* push_task in progress
    consPc, consHeld, consWait, \* pop_result / pop_or_wait_result in progress
    dropPc, joined,   \* Drop for TxEngine
    \* ---- history (not read by the engine)
    execCount,        \* per task: number of executor.execute calls
    resCount,         \* per task: number of results pushed
    nPop,             \* successful pop_result returns
    nFail,            \* executions that failed
    \* ---- block commit
    db_block,         \* DB, block column: height -> block
    db_tx_col,        \* DB, transaction column: tx hash -> transaction
    db_state,         \* DB, state column: the trie nodes written
    latest,           \* the latest block header (process-wide)
    commitPc,         \* position of the commit call in progress
    commitFn,         \* which function it is: "client" or "storage"
    commitProp,       \* its blk_proposal and state_update arguments
    commitBlk,        \* its blk_proposal.get_block()
    db_tx,            \* its Transaction (the batch handed to write_async)
    writeOk,          \* the result of its db.write_async
    commitResult,     \* what the last commit call returned
    \* ---- history (not read by the commit functions)
    persisted,        \* blocks of the batches the DB has written
    committedB,       \* the functions that committed ProposalB and returned Ok
    \* ---- partial Merkle trie (prune.rs, branch.rs)
    trie,             \* a PartialTrie; its branch nodes memoize their digest
    trieKey,          \* the key prune_key and value_hash are called with
    prLen,            \* the kept_prefix_len prune_key is called with
    prResult,         \* what prune_key returned
    vhResult,         \* what BranchNode::value_hash did
    \* ---- TxTrieDiff merging (diff.rs)
    diffA, diffB,     \* two TxTrieDiffs
    mergedAB,         \* what merge_tx_trie_diff(&diffA, &diffB) did
    mergedBA,         \* what merge_tx_trie_diff(&diffB, &diffA) did
    \* ---- PoW consensus (pow.rs)
    debugAssertions,  \* cfg!(debug_assertions) of the build
    diffUnit,         \* the unit difficulties are counted in: "1" or "2^40"
    prev_blk,         \* the previous block
    powBlk,           \* the blk create_new_block is mining or has returned
    minePc,           \* position of create_new_block
    vblk,             \* the block verify_consensus was called with
    verifyResult      \* what verify_consensus returned

\* ---- the client node's network worker (raft/client_network.rs)
VARIABLES
    req_rx,            \* number of requests queued in the request channel
    block_proposal_rx, \* number of proposals queued in the proposal channel
    reqClosed,         \* the request channel is closed: close_channel was
                       \* called on req_tx, or its receiver was dropped
    bpClosed,          \* the same for the block proposal channel
    shutdown_rx,       \* the one-shot: "empty" or "sent"
    shutdown_tx,       \* the worker's Option<oneshot::Sender>: "Some", "None"
    handle,            \* the worker's Option<JoinHandle>: "Some", "None"
    taskPc,            \* where the spawned event loop is
    sdPc,              \* where the caller of shutdown() is
    sdResult,          \* what the last shutdown() returned
    noneCount          \* None results the loop took since the one-shot fired

\* ---- two BranchNode values (branch.rs)
VARIABLES
    branches,          \* the two BranchNodes: children and memoized node_hash
    branchDigest       \* what the last to_digest call returned, and on which

\* ---- one PubSub behaviour (slimchain-network/src/pubsub.rs)
VARIABLES
    topics,            \* the HashSet<PubSubTopic> given to PubSub::new
    pending_events,    \* the VecDeque of PubSubEvents, front first
    pubsubPc,          \* "unbuilt", "ready", or "panicked"
    pubsubLast         \* the last call on the PubSub, its input, its result

engineVars == <<task_queue, local_task_queue, result_queue, unparker_queue,
                shutdown_flag, remaining_tasks, pc, task, backoff, peerIdx,
                sawRetry, token, nextId, prodPc, prodTask, consPc, consHeld,
                consWait, dropPc, joined, execCount, resCount, nPop,
                nFail>>

commitVars == <<db_block, db_tx_col, db_state, latest, commitPc, commitFn,
                commitProp, commitBlk, db_tx, writeOk, commitResult,
                persisted, committedB>>

trieVars == <<trie, trieKey, prLen, prResult, vhResult>>

diffVars == <<diffA, diffB, mergedAB, mergedBA>>

powVars == <<debugAssertions, diffUnit, prev_blk, powBlk, minePc, vblk,
             verifyResult>>

netVars == <<req_rx, block_proposal_rx, reqClosed, bpClosed, shutdown_rx,
             shutdown_tx, handle, taskPc, sdPc, sdResult, noneCount>>

branchVars == <<branches, branchDigest>>

pubsubVars == <<topics, pending_events, pubsubPc, pubsubLast>>

vars == <<engineVars, commitVars, trieVars, diffVars, powVars, netVars,
          branchVars, pubsubVars>>

\* what the engine leaves alone, and what the commit functions leave alone
notEngineVars ==
    <<commitVars, trieVars, diffVars, powVars, netVars, branchVars,
      pubsubVars>>
notCommitVars ==
    <<engineVars, trieVars, diffVars, powVars, netVars, branchVars,
      pubsubVars>>
notTrieVars ==
    <<engineVars, commitVars, diffVars, powVars, netVars, branchVars,
      pubsubVars>>
notDiffVars ==
    <<engineVars, commitVars, trieVars, powVars, netVars, branchVars,
      pubsubVars>>
notPowVars ==
    <<engineVars, commitVars, trieVars, diffVars, netVars, branchVars,
      pubsubVars>>
notBranchVars ==
    <<engineVars, commitVars, trieVars, diffVars, powVars, netVars,
      pubsubVars>>
notNetVars ==
    <<engineVars, commitVars, trieVars, diffVars, powVars, branchVars,
      pubsubVars>>
notPubSubVars ==
    <<engineVars, commitVars, trieVars, diffVars, powVars, netVars,
      branchVars>>

\* ------------------------------------------------------------ TxEngine::new
EngineInit ==
    /\ task_queue = <<>>
    /\ local_task_queue = [w \in Workers |-> <<>>]
    /\ result_queue = <<>>
    /\ unparker_queue = <<>>
    /\ shutdown_flag = FALSE
    /\ remaining_tasks = 0
    /\ pc = [w \in Workers |-> "find"]
    /\ task = [w \in Workers |-> NoTask]
    /\ backoff = [w \in Workers |-> FALSE]
    /\ peerIdx = [w \in Workers |-> 1]
    /\ sawRetry = [w \in Workers |-> FALSE]
    /\ token = [w \in Workers |-> FALSE]
    /\ nextId = 1
    /\ prodPc = "idle"
    /\ prodTask = NoTask
    /\ consPc = "idle"
    /\ consHeld = NoTask
    /\ consWait = FALSE
    /\ dropPc = "live"
    /\ joined = 0
    /\ execCount = [t \in Tasks |-> 0]
    /\ resCount = [t \in Tasks |-> 0]
    /\ nPop = 0
    /\ nFail = 0

\* worker i holds the stealers of every worker j # i, in the order of j
RECURSIVE StealersFrom(_, _)
StealersFrom(w, j) ==
    IF j > NumWorkers THEN <<>>
    ELSE IF j = w THEN StealersFrom(w, j + 1)
    ELSE <<j>> \o StealersFrom(w, j + 1)

Stealers(w) == StealersFrom(w, 1)

workerVars == <<pc, task, backoff, peerIdx, sawRetry, token>>
prodVars == <<nextId, prodPc, prodTask>>
consVars == <<consPc, consHeld, consWait>>
dropVars == <<dropPc, joined>>
histVars == <<execCount, resCount, nPop, nFail>>

\* ------------------------------------------------------------ push_task
\* TxTask::new takes the next id; push_task increments the counter
PushTaskAdd ==
    /\ dropPc = "live"
    /\ prodPc = "idle"
    /\ nextId <= MaxTasks
    /\ remaining_tasks' = remaining_tasks + 1
    /\ prodTask' = nextId
    /\ nextId' = nextId + 1
    /\ prodPc' = "push"
    /\ UNCHANGED <<task_queue, local_task_queue, result_queue, unparker_queue,
                   shutdown_flag, workerVars, consVars, dropVars, histVars>>
    /\ UNCHANGED notEngineVars

\* self.task_queue.push(task)
PushTaskEnqueue ==
    /\ prodPc = "push"
    /\ task_queue' = Append(task_queue, prodTask)
    /\ prodPc' = "wake"
    /\ UNCHANGED <<local_task_queue, result_queue, unparker_queue, shutdown_flag,
                   remaining_tasks, workerVars, nextId, prodTask, consVars,
                   dropVars, histVars>>
    /\ UNCHANGED notEngineVars

PushTaskWakeKeepsUnparker ==
    /\ prodPc = "wake"
    /\ IF unparker_queue # <<>>
       THEN /\ token' = [token EXCEPT ![Head(unparker_queue)] = TRUE]
            /\ UNCHANGED unparker_queue
       ELSE UNCHANGED <<unparker_queue, token>>
    /\ prodPc' = "idle"
    /\ prodTask' = NoTask
    /\ UNCHANGED <<task_queue, local_task_queue, result_queue, shutdown_flag,
                   remaining_tasks, pc, task, backoff, peerIdx, sawRetry, nextId,
                   consVars, dropVars, histVars>>
    /\ UNCHANGED notEngineVars

\* if let Ok(unparker) = self.unparker_queue.pop() { unparker.unpark() }
PushTaskWake ==
    /\ prodPc = "wake"
    /\ IF unparker_queue # <<>>
       THEN /\ unparker_queue' = Tail(unparker_queue)
            /\ token' = [token EXCEPT ![Head(unparker_queue)] = TRUE]
       ELSE UNCHANGED <<unparker_queue, token>>
    /\ prodPc' = "idle"
    /\ prodTask' = NoTask
    /\ UNCHANGED <<task_queue, local_task_queue, result_queue, shutdown_flag,
                   remaining_tasks, pc, task, backoff, peerIdx, sawRetry, nextId,
                   consVars, dropVars, histVars>>
    /\ UNCHANGED notEngineVars

\* ------------------------------------------------------------ pop_result
\* the counter after the fetch_sub of pop_result
PopRemainingKept(r) == r

PopRemaining(r) == r - 1

\* pop_result() is called
PopResultCall ==
    /\ dropPc = "live"
    /\ consPc = "idle"
    /\ consPc' = "pop"
    /\ consWait' = FALSE
    /\ UNCHANGED <<task_queue, local_task_queue, result_queue, unparker_queue,
                   shutdown_flag, remaining_tasks, workerVars, prodVars,
                   consHeld, dropVars, histVars>>
    /\ UNCHANGED notEngineVars

\* pop_or_wait_result() is called: pop_result in a loop until it is Some
PopOrWaitResultCall ==
    /\ dropPc = "live"
    /\ consPc = "idle"
    /\ consPc' = "pop"
    /\ consWait' = TRUE
    /\ UNCHANGED <<task_queue, local_task_queue, result_queue, unparker_queue,
                   shutdown_flag, remaining_tasks, workerVars, prodVars,
                   consHeld, dropVars, histVars>>
    /\ UNCHANGED notEngineVars

\* let result = self.result_queue.pop().ok(): on None pop_result returns
\* None, and pop_or_wait_result snoozes and calls it again
PopResultDequeue ==
    /\ consPc = "pop"
    /\ IF result_queue = <<>>
       THEN /\ consPc' = IF consWait THEN "pop" ELSE "idle"
            /\ UNCHANGED <<result_queue, consHeld>>
       ELSE /\ consPc' = "sub"
            /\ consHeld' = Head(result_queue)
            /\ result_queue' = Tail(result_queue)
    /\ UNCHANGED <<task_queue, local_task_queue, unparker_queue, shutdown_flag,
                   remaining_tasks, workerVars, prodVars, consWait, dropVars,
                   histVars>>
    /\ UNCHANGED notEngineVars

\* if result.is_some() { self.remaining_tasks.fetch_sub(1) }; result is
\* returned: Some(consHeld)
PopResultSub ==
    /\ consPc = "sub"
    /\ remaining_tasks' = PopRemaining(remaining_tasks)
    /\ consPc' = "idle"
    /\ consHeld' = NoTask
    /\ consWait' = FALSE
    /\ nPop' = nPop + 1
    /\ UNCHANGED <<task_queue, local_task_queue, result_queue, unparker_queue,
                   shutdown_flag, workerVars, prodVars, dropVars, execCount,
                   resCount, nFail>>
    /\ UNCHANGED notEngineVars

\* ------------------------------------------------------------ find_task
\* a deque after its owner's pop or a thief's successful steal
StealFromKept(q) == q

StealFrom(q) == Tail(q)

SearchEndIgnoresRetry(w, retry) ==
    /\ pc' = [pc EXCEPT ![w] = IF backoff[w] THEN "flag" ELSE "find"]
    /\ IF ~backoff[w]
       THEN \E done \in BOOLEAN : backoff' = [backoff EXCEPT ![w] = done]
       ELSE UNCHANGED backoff
    /\ sawRetry' = [sawRetry EXCEPT ![w] = FALSE]
    /\ peerIdx' = [peerIdx EXCEPT ![w] = 1]

\* the search ends without a task: .find(|s| !s.is_retry()) repeats it when
\* some steal reported Retry; otherwise find_task is None and wait_until_task
\* snoozes, or goes on to the shutdown flag once the backoff is completed
SearchEnd(w, retry) ==
    /\ pc' = [pc EXCEPT ![w] = IF ~retry /\ backoff[w] THEN "flag" ELSE "find"]
    /\ IF ~retry /\ ~backoff[w]
       THEN \E done \in BOOLEAN : backoff' = [backoff EXCEPT ![w] = done]
       ELSE UNCHANGED backoff
    /\ sawRetry' = [sawRetry EXCEPT ![w] = FALSE]
    /\ peerIdx' = [peerIdx EXCEPT ![w] = 1]

\* self.local_task_queue.pop() is Some
FindLocal(w) ==
    /\ pc[w] = "find"
    /\ local_task_queue[w] # <<>>
    /\ task' = [task EXCEPT ![w] = Head(local_task_queue[w])]
    /\ local_task_queue' =
           [local_task_queue EXCEPT ![w] = StealFrom(local_task_queue[w])]
    /\ pc' = [pc EXCEPT ![w] = "exec"]
    /\ UNCHANGED <<task_queue, result_queue, unparker_queue, shutdown_flag,
                   remaining_tasks, backoff, peerIdx, sawRetry, token, prodVars,
                   consVars, dropVars, histVars>>
    /\ UNCHANGED notEngineVars

\* the local deque is empty and
\* self.global_task_queue.steal_batch_and_pop(&self.local_task_queue) is
\* Success: the first task of the batch is returned, the rest goes to the
\* local deque
InjectorStealSuccess(w) ==
    /\ pc[w] = "find"
    /\ local_task_queue[w] = <<>>
    /\ task_queue # <<>>
    /\ \E k \in 1..Len(task_queue) :
          /\ task' = [task EXCEPT ![w] = Head(task_queue)]
          /\ local_task_queue' =
                 [local_task_queue EXCEPT ![w] = SubSeq(task_queue, 2, k)]
          /\ task_queue' = SubSeq(task_queue, k + 1, Len(task_queue))
    /\ pc' = [pc EXCEPT ![w] = "exec"]
    /\ UNCHANGED <<result_queue, unparker_queue, shutdown_flag, remaining_tasks,
                   backoff, peerIdx, sawRetry, token, prodVars, consVars,
                   dropVars, histVars>>
    /\ UNCHANGED notEngineVars

\* the local deque is empty and steal_batch_and_pop is Empty (the injector
\* is empty) or Retry: or_else goes on to the stealers
InjectorStealNone(w) ==
    /\ pc[w] = "find"
    /\ local_task_queue[w] = <<>>
    /\ IF Stealers(w) = <<>>
       THEN SearchEnd(w, task_queue # <<>>)
       ELSE /\ pc' = [pc EXCEPT ![w] = "peers"]
            /\ peerIdx' = [peerIdx EXCEPT ![w] = 1]
            /\ sawRetry' = [sawRetry EXCEPT ![w] = task_queue # <<>>]
            /\ UNCHANGED backoff
    /\ UNCHANGED <<task_queue, local_task_queue, result_queue, unparker_queue,
                   shutdown_flag, remaining_tasks, task, token, prodVars,
                   consVars, dropVars, histVars>>
    /\ UNCHANGED notEngineVars

\* self.stealers.iter().map(|s| s.steal()).collect(): one steal, Success
PeerStealSuccess(w) ==
    /\ pc[w] = "peers"
    /\ LET v == Stealers(w)[peerIdx[w]] IN
          /\ local_task_queue[v] # <<>>
          /\ task' = [task EXCEPT ![w] = Head(local_task_queue[v])]
          /\ local_task_queue' =
                 [local_task_queue EXCEPT ![v] = StealFrom(local_task_queue[v])]
    /\ pc' = [pc EXCEPT ![w] = "exec"]
    /\ peerIdx' = [peerIdx EXCEPT ![w] = 1]
    /\ sawRetry' = [sawRetry EXCEPT ![w] = FALSE]
    /\ UNCHANGED <<task_queue, result_queue, unparker_queue, shutdown_flag,
                   remaining_tasks, backoff, token, prodVars, consVars, dropVars,
                   histVars>>
    /\ UNCHANGED notEngineVars

\* one steal is Empty (the peer's deque is empty) or Retry: collect goes on
\* to the next stealer, and after the last one the search ends
PeerStealNone(w) ==
    /\ pc[w] = "peers"
    /\ LET retry == sawRetry[w] \/ local_task_queue[Stealers(w)[peerIdx[w]]] # <<>>
       IN  IF peerIdx[w] = Len(Stealers(w))
           THEN SearchEnd(w, retry)
           ELSE /\ peerIdx' = [peerIdx EXCEPT ![w] = peerIdx[w] + 1]
                /\ sawRetry' = [sawRetry EXCEPT ![w] = retry]
                /\ UNCHANGED <<pc, backoff>>
    /\ UNCHANGED <<task_queue, local_task_queue, result_queue, unparker_queue,
                   shutdown_flag, remaining_tasks, task, token, prodVars,
                   consVars, dropVars, histVars>>
    /\ UNCHANGED notEngineVars

\* ------------------------------------------------------------ wait_until_task
\* if self.shutdown_flag.load(Acquire) { return None }: run ends
CheckShutdown(w) ==
    /\ pc[w] = "flag"
    /\ pc' = [pc EXCEPT ![w] = IF shutdown_flag THEN "done" ELSE "register"]
    /\ UNCHANGED <<task_queue, local_task_queue, result_queue, unparker_queue,
                   shutdown_flag, remaining_tasks, task, backoff, peerIdx,
                   sawRetry, token, prodVars, consVars, dropVars, histVars>>
    /\ UNCHANGED notEngineVars

\* let parker = Parker::new(); self.unparker_queue.push(unparker).expect(..)
RegisterUnparker(w) ==
    /\ pc[w] = "register"
    /\ IF Len(unparker_queue) < NumWorkers
       THEN /\ unparker_queue' = Append(unparker_queue, w)
            /\ pc' = [pc EXCEPT ![w] = "park"]
       ELSE /\ pc' = [pc EXCEPT ![w] = "panicked"]
            /\ UNCHANGED unparker_queue
    /\ token' = [token EXCEPT ![w] = FALSE]
    /\ UNCHANGED <<task_queue, local_task_queue, result_queue, shutdown_flag,
                   remaining_tasks, task, backoff, peerIdx, sawRetry, prodVars,
                   consVars, dropVars, histVars>>
    /\ UNCHANGED notEngineVars

\* parker.park() returns once the token is set, and the loop searches again
Park(w) ==
    /\ pc[w] = "park"
    /\ token[w]
    /\ token' = [token EXCEPT ![w] = FALSE]
    /\ pc' = [pc EXCEPT ![w] = "find"]
    /\ UNCHANGED <<task_queue, local_task_queue, result_queue, unparker_queue,
                   shutdown_flag, remaining_tasks, task, backoff, peerIdx,
                   sawRetry, prodVars, consVars, dropVars, histVars>>
    /\ UNCHANGED notEngineVars

\* ------------------------------------------------------------ run
\* the counter after a failed self.worker.execute(task)
ExecFailRemainingKept(r) == r

ExecFailRemaining(r) == r - 1

\* the counter after a failed TxWriteSetTrie::new
TrieFailRemainingKept(r) == r

TrieFailRemaining(r) == r - 1

\* one iteration of the loop of run on the dequeued task:
\* self.worker.execute(task) is Err (fetch_sub, continue), or
\* TxWriteSetTrie::new is Err (fetch_sub, continue), or both are Ok and the
\* TxTaskOutput is pushed to the result queue
Execute(w) ==
    /\ pc[w] = "exec"
    /\ execCount' = [execCount EXCEPT ![task[w]] = execCount[task[w]] + 1]
    /\ \/ /\ remaining_tasks' = ExecFailRemaining(remaining_tasks)
          /\ nFail' = nFail + 1
          /\ UNCHANGED <<result_queue, resCount>>
       \/ /\ remaining_tasks' = TrieFailRemaining(remaining_tasks)
          /\ nFail' = nFail + 1
          /\ UNCHANGED <<result_queue, resCount>>
       \/ /\ result_queue' = Append(result_queue, task[w])
          /\ resCount' = [resCount EXCEPT ![task[w]] = resCount[task[w]] + 1]
          /\ UNCHANGED <<remaining_tasks, nFail>>
    /\ task' = [task EXCEPT ![w] = NoTask]
    /\ backoff' = [backoff EXCEPT ![w] = FALSE]
    /\ pc' = [pc EXCEPT ![w] = "find"]
    /\ UNCHANGED <<task_queue, local_task_queue, unparker_queue, shutdown_flag,
                   peerIdx, sawRetry, token, prodVars, consVars, dropVars, nPop>>
    /\ UNCHANGED notEngineVars

\* ------------------------------------------------------------ Drop for TxEngine
\* self.shutdown_flag.store(true, Release); thread::sleep(10 ms)
DropStore ==
    /\ dropPc = "live"
    /\ prodPc = "idle"
    /\ consPc = "idle"
    /\ shutdown_flag' = TRUE
    /\ dropPc' = "drain"
    /\ UNCHANGED <<task_queue, local_task_queue, result_queue, unparker_queue,
                   remaining_tasks, workerVars, prodVars, consVars, joined,
                   histVars>>
    /\ UNCHANGED notEngineVars

\* while let Ok(unparker) = self.unparker_queue.pop() { unparker.unpark() }
DropDrain ==
    /\ dropPc = "drain"
    /\ IF unparker_queue # <<>>
       THEN /\ unparker_queue' = Tail(unparker_queue)
            /\ token' = [token EXCEPT ![Head(unparker_queue)] = TRUE]
            /\ UNCHANGED dropPc
       ELSE /\ dropPc' = "join"
            /\ UNCHANGED <<unparker_queue, token>>
    /\ UNCHANGED <<task_queue, local_task_queue, result_queue, shutdown_flag,
                   remaining_tasks, pc, task, backoff, peerIdx, sawRetry,
                   prodVars, consVars, joined, histVars>>
    /\ UNCHANGED notEngineVars

\* for w in self.worker_threads.drain(..) { w.join().expect(..) }
DropJoin ==
    /\ dropPc = "join"
    /\ joined < NumWorkers
    /\ pc[joined + 1] = "done"
    /\ joined' = joined + 1
    /\ dropPc' = IF joined + 1 = NumWorkers THEN "dropped" ELSE "join"
    /\ UNCHANGED <<task_queue, local_task_queue, result_queue, unparker_queue,
                   shutdown_flag, remaining_tasks, workerVars, prodVars,
                   consVars, histVars>>
    /\ UNCHANGED notEngineVars

\* ------------------------------------------------------------ the engine
WorkerNext(w) ==
    \/ FindLocal(w)
    \/ InjectorStealSuccess(w)
    \/ InjectorStealNone(w)
    \/ PeerStealSuccess(w)
    \/ PeerStealNone(w)
    \/ CheckShutdown(w)
    \/ RegisterUnparker(w)
    \/ Park(w)
    \/ Execute(w)

ProducerNext == PushTaskAdd \/ PushTaskEnqueue \/ PushTaskWake

ConsumerNext ==
    \/ PopResultCall
    \/ PopOrWaitResultCall
    \/ PopResultDequeue
    \/ PopResultSub

DropNext == DropStore \/ DropDrain \/ DropJoin

EngineNext ==
    \/ ProducerNext
    \/ ConsumerNext
    \/ DropNext
    \/ \E w \in Workers : WorkerNext(w)

\* ------------------------------------------------------------ blocks, DB
Heights == 1..MaxHeight
TxIds == {1, 2}
\* a transaction is named by its digest; tx_list holds digests
TxLists == {<<1>>, <<2>>}
\* the transactions of a proposal: fewer than tx_list has entries, as many,
\* or more
TxSeqs == {<<>>, <<1>>, <<2>>, <<1, 2>>}
Nodes == {1}
\* a block (and its header): two blocks of one height differ in tx_list
Blocks == [height : Heights, tx_list : TxLists]
Genesis == [height |-> 0, tx_list |-> <<>>]
NoBlock == [height |-> 0 - 1, tx_list |-> <<>>]
\* BlockProposal and the TxStateUpdate handed over with it
Proposals == [block : Blocks, txs : TxSeqs, state_update : SUBSET Nodes]
NoProposal == [block |-> NoBlock, txs |-> <<>>, state_update |-> {}]
\* the proposal B whose commits are recorded, to tell a second commit of it
ProposalB ==
    [block |-> [height |-> 1, tx_list |-> <<1>>], txs |-> <<1>>,
     state_update |-> Nodes]
NoTx == 0
\* an empty Transaction: no block, no transaction, no state node
EmptyBatch == [block |-> NoBlock, txs |-> {}, nodes |-> {}]

\* Transaction::insert_block
InsertBlock(batch, blk) == [batch EXCEPT !.block = blk]

\* Transaction::insert_tx
InsertTx(batch, tx_hash, tx) ==
    [batch EXCEPT !.txs = {e \in @ : e[1] # tx_hash} \cup {<<tx_hash, tx>>}]

\* Transaction::update_state
UpdateState(batch, update) == [batch EXCEPT !.nodes = @ \cup update]

Min(a, b) == IF a < b THEN a ELSE b

\* for (&tx_hash, tx) in blk.tx_list().iter().zip(txs.iter()) { insert_tx }
RECURSIVE InsertTxs(_, _, _, _)
InsertTxs(batch, tx_list, txs, i) ==
    IF i > Min(Len(tx_list), Len(txs)) THEN batch
    ELSE InsertTxs(InsertTx(batch, tx_list[i], txs[i]), tx_list, txs, i + 1)

\* the Transaction commit_block builds: the block alone
ClientBatch(p) == InsertBlock(EmptyBatch, p.block)

\* the Transaction commit_block_storage_node builds: the block, the zipped
\* transactions and the state update
StorageBatch(p) ==
    UpdateState(InsertTxs(InsertBlock(EmptyBatch, p.block),
                          p.block.tx_list, p.txs, 1),
                p.state_update)

\* the block column once the DB has written the batch
WriteBlocks(col, batch) ==
    IF batch.block = NoBlock THEN col
    ELSE [col EXCEPT ![batch.block.height] = batch.block]

\* the transaction column once the DB has written the batch
WriteTxs(col, batch) ==
    [h \in TxIds |->
        IF \E e \in batch.txs : e[1] = h
        THEN (CHOOSE e \in batch.txs : e[1] = h)[2]
        ELSE col[h]]

\* latest::set_latest_block_header
SetLatestBlockHeader(blk) == blk

\* the latest header after the write: db.write_async(db_tx).await? returns
\* the error before set_latest_block_header(blk) is reached
CommitLatestUnchecked(old, blk, ok) == SetLatestBlockHeader(blk)

CommitLatest(old, blk, ok) == IF ok THEN SetLatestBlockHeader(blk) ELSE old

CommitInit ==
    /\ db_block = [h \in Heights |-> NoBlock]
    /\ db_tx_col = [h \in TxIds |-> NoTx]
    /\ db_state = {}
    /\ latest = Genesis
    /\ commitPc = "idle"
    /\ commitFn = "none"
    /\ commitProp = NoProposal
    /\ commitBlk = NoBlock
    /\ db_tx = EmptyBatch
    /\ writeOk = FALSE
    /\ commitResult = "none"
    /\ persisted = {}
    /\ committedB = {}

\* ------------------------------------------------------------ commit_block
\* commit_block(blk_proposal, db) up to db.write_async(db_tx): insert_block
\* fails and the error is returned, or the batch is handed to the DB
CommitBlock(p) ==
    /\ commitPc = "idle"
    /\ \/ /\ commitResult' = "err"
          /\ UNCHANGED <<commitPc, commitFn, commitProp, commitBlk, db_tx>>
       \/ /\ commitPc' = "writing"
          /\ commitFn' = "client"
          /\ commitProp' = p
          /\ commitBlk' = p.block
          /\ db_tx' = ClientBatch(p)
          /\ commitResult' = "none"
    /\ UNCHANGED <<db_block, db_tx_col, db_state, latest, writeOk, persisted,
                   committedB>>
    /\ UNCHANGED notCommitVars

\* debug_assert_eq!(tx_hash, tx.to_digest()) fails for some zipped pair
DigestMismatch(p) ==
    \E i \in 1..Min(Len(p.block.tx_list), Len(p.txs)) :
        p.block.tx_list[i] # p.txs[i]

\* commit_block_storage_node(blk_proposal, state_update, db) up to
\* db.write_async(db_tx): insert_block, insert_tx or update_state fails and
\* the error is returned, or a build with debug assertions panics on a
\* digest mismatch, or the batch is handed to the DB
CommitBlockStorageNode(p) ==
    /\ commitPc = "idle"
    /\ \/ /\ commitResult' = "err"
          /\ UNCHANGED <<commitPc, commitFn, commitProp, commitBlk, db_tx>>
       \/ /\ DigestMismatch(p)
          /\ commitResult' = "panic"
          /\ UNCHANGED <<commitPc, commitFn, commitProp, commitBlk, db_tx>>
       \/ /\ commitPc' = "writing"
          /\ commitFn' = "storage"
          /\ commitProp' = p
          /\ commitBlk' = p.block
          /\ db_tx' = StorageBatch(p)
          /\ commitResult' = "none"
    /\ UNCHANGED <<db_block, db_tx_col, db_state, latest, writeOk, persisted,
                   committedB>>
    /\ UNCHANGED notCommitVars

\* db.write_async(db_tx): the DB writes the whole batch, or nothing and
\* reports an error
WriteAsync ==
    /\ commitPc = "writing"
    /\ \/ /\ writeOk' = TRUE
          /\ db_block' = WriteBlocks(db_block, db_tx)
          /\ db_tx_col' = WriteTxs(db_tx_col, db_tx)
          /\ db_state' = db_state \cup db_tx.nodes
          /\ persisted' = persisted \cup {db_tx.block}
       \/ /\ writeOk' = FALSE
          /\ UNCHANGED <<db_block, db_tx_col, db_state, persisted>>
    /\ commitPc' = "resume"
    /\ UNCHANGED <<latest, commitFn, commitProp, commitBlk, db_tx,
                   commitResult, committedB>>
    /\ UNCHANGED notCommitVars

\* the commit function resumes after the await: on an error it returns it,
\* otherwise set_latest_block_header(blk) and Ok(())
CommitResume ==
    /\ commitPc = "resume"
    /\ latest' = CommitLatest(latest, commitBlk, writeOk)
    /\ commitResult' = IF writeOk THEN "ok" ELSE "err"
    /\ committedB' = IF writeOk /\ commitProp = ProposalB
                     THEN committedB \cup {commitFn}
                     ELSE committedB
    /\ commitPc' = "idle"
    /\ commitFn' = "none"
    /\ commitProp' = NoProposal
    /\ commitBlk' = NoBlock
    /\ db_tx' = EmptyBatch
    /\ writeOk' = FALSE
    /\ UNCHANGED <<db_block, db_tx_col, db_state, persisted>>
    /\ UNCHANGED notCommitVars

CommitNext ==
    \/ \E p \in Proposals : CommitBlock(p)
    \/ \E p \in Proposals : CommitBlockStorageNode(p)
    \/ WriteAsync
    \/ CommitResume

\* ------------------------------------------------------------ partial trie
\* longest key, in nibbles
MaxKeyLen == 2
\* the nibbles: U4 has 16 values, the model keeps two of them
U4 == {0, 1}
\* value hashes stored in leaves, and H256::zero
LeafValues == {<<"V", 1>>}
ZeroHash == <<"V", 0>>
\* digests of subtrees known by their hash only
StubDigests == {<<"H", 1>>}

\* Option::None for a child slot, a root or a memoized digest
NoneNode == [kind |-> "None"]
NoHash == <<"N">>

\* SubTree::Hash, Leaf, Extension, Branch
HashNode(h) == [kind |-> "Hash", hash |-> h]
LeafNode(nibbles, value) == [kind |-> "Leaf", nibbles |-> nibbles, value |-> value]
ExtensionNode(nibbles, child) ==
    [kind |-> "Extension", nibbles |-> nibbles, child |-> child]

\* BranchNode::new(children): the digest is not memoized yet
BranchNodeNew(children) ==
    [kind |-> "Branch", children |-> children, node_hash |-> NoHash]

\* leaf_hash, extension_hash, branch_node_hash: collision-free hashes of the
\* canonical encodings
LeafHash(nibbles, value) == <<"L", nibbles, value>>
ExtensionHash(nibbles, child_digest) == <<"E", nibbles, child_digest>>
BranchNodeHash(child_digests) == <<"B", child_digests>>

\* Digestible::to_digest of a subtree; a branch returns its memoized digest
\* when it has one
RECURSIVE ToDigest(_)
ToDigest(n) ==
    CASE n.kind = "Hash" -> n.hash
      [] n.kind = "Leaf" -> LeafHash(n.nibbles, n.value)
      [] n.kind = "Extension" -> ExtensionHash(n.nibbles, ToDigest(n.child))
      [] n.kind = "Branch" ->
            IF n.node_hash # NoHash THEN n.node_hash
            ELSE BranchNodeHash([i \in U4 |->
                    IF n.children[i] = NoneNode THEN NoHash
                    ELSE ToDigest(n.children[i])])

\* the subtree after to_digest ran on it: every branch the computation
\* visited has memoized its digest
RECURSIVE Memoized(_)
Memoized(n) ==
    CASE n.kind = "Extension" -> [n EXCEPT !.child = Memoized(n.child)]
      [] n.kind = "Branch" ->
            IF n.node_hash # NoHash THEN n
            ELSE [kind |-> "Branch",
                  children |-> [i \in U4 |->
                      IF n.children[i] = NoneNode THEN NoneNode
                      ELSE Memoized(n.children[i])],
                  node_hash |-> ToDigest(n)]
      [] OTHER -> n

\* PartialTrie: from_root_hash, from_subtree, and the empty trie
FromRootHash(h) == [root |-> HashNode(h)]
FromSubtree(root) == [root |-> root]
EmptyTrie == [root |-> NoneNode]

\* ---- the tries the checks start from
NibbleSeqs(k) == [1..k -> U4]
Keys == UNION {NibbleSeqs(k) : k \in 0..MaxKeyLen}

\* children off the path of interest: empty, a stub or a leaf
Simple(k) ==
    {NoneNode} \cup {HashNode(h) : h \in StubDigests}
        \cup {LeafNode(s, v) : s \in NibbleSeqs(k), v \in LeafValues}

\* the subtrees that hold keys of k more nibbles; a branch has at most one
\* child that is itself a branch or an extension
RECURSIVE SubTrees(_)
SubTrees(k) ==
    (Simple(k) \ {NoneNode})
    \cup (IF k = 0 THEN {}
          ELSE LET below == Simple(k - 1) \cup SubTrees(k - 1)
               IN  {BranchNodeNew(c) : c \in
                      {c \in [U4 -> below] :
                          Cardinality({i \in U4 : c[i] \notin Simple(k - 1)})
                              <= 1}})
    \cup UNION {{ExtensionNode(s, ch) :
                    s \in NibbleSeqs(j),
                    ch \in {x \in SubTrees(k - j) :
                               x.kind \in {"Branch", "Hash"}}} : j \in 1..k}

Tries == {EmptyTrie} \cup {FromSubtree(r) : r \in SubTrees(MaxKeyLen)}

\* tries one level deeper, an extension above a branch, with their keys
DeepTries ==
    {FromSubtree(ExtensionNode(<<0>>, r)) :
        r \in {x \in SubTrees(MaxKeyLen) : x.kind = "Branch"}}
DeepKeys ==
    {<<0>> \o k : k \in NibbleSeqs(MaxKeyLen - 1) \cup NibbleSeqs(MaxKeyLen)}

\* ---- nibbles
\* Nibbles::strip_prefix: the rest of the key behind the prefix, if any
HasPrefix(key, prefix) ==
    /\ Len(prefix) <= Len(key)
    /\ SubSeq(key, 1, Len(prefix)) = prefix
StripPrefix(key, prefix) == SubSeq(key, Len(prefix) + 1, Len(key))

\* ---- prune_key
\* TempNode::SubTree, TempNode::Extension, TempNode::Branch
TempSubTree(t) == [kind |-> "SubTree", tree |-> t]
TempExtension(nibbles) == [kind |-> "Extension", nibbles |-> nibbles]
TempBranchFirst(node, index) ==
    [kind |-> "Branch", node |-> node, index |-> 0]

TempBranch(node, index) == [kind |-> "Branch", node |-> node, index |-> index]

\* the while loop of prune_key, from one iteration on: how it is left
\* ("stub": by its condition; "clone": return Ok(trie.clone()); or an error)
\* with the temp_nodes pushed and the node reached
RECURSIVE PruneWalk(_, _, _, _, _)
PruneWalk(temp_nodes, temp_node_prefix_len, cur_key, cur_ptr, kept_prefix_len) ==
    IF ~(temp_node_prefix_len <= kept_prefix_len)
    THEN [outcome |-> "stub", temp_nodes |-> temp_nodes, cur_ptr |-> cur_ptr]
    ELSE CASE cur_ptr.kind = "Hash" ->
                [outcome |-> "err_pruned", temp_nodes |-> temp_nodes,
                 cur_ptr |-> cur_ptr]
           [] cur_ptr.kind = "Extension" ->
                IF HasPrefix(cur_key, cur_ptr.nibbles)
                THEN PruneWalk(Append(temp_nodes, TempExtension(cur_ptr.nibbles)),
                               temp_node_prefix_len + Len(cur_ptr.nibbles),
                               StripPrefix(cur_key, cur_ptr.nibbles),
                               cur_ptr.child, kept_prefix_len)
                ELSE [outcome |-> "clone", temp_nodes |-> temp_nodes,
                      cur_ptr |-> cur_ptr]
           [] cur_ptr.kind = "Branch" ->
                IF cur_key # <<>>
                THEN LET child_idx == Head(cur_key)
                         pushed == Append(temp_nodes,
                                     TempBranch(BranchNodeNew(cur_ptr.children),
                                                child_idx))
                     IN  IF cur_ptr.children[child_idx] # NoneNode
                         THEN PruneWalk(pushed, temp_node_prefix_len + 1,
                                        Tail(cur_key),
                                        cur_ptr.children[child_idx],
                                        kept_prefix_len)
                         ELSE [outcome |-> "clone", temp_nodes |-> pushed,
                               cur_ptr |-> cur_ptr]
                ELSE [outcome |-> "err_branch", temp_nodes |-> temp_nodes,
                      cur_ptr |-> cur_ptr]
           [] cur_ptr.kind = "Leaf" ->
                [outcome |-> "clone", temp_nodes |-> temp_nodes,
                 cur_ptr |-> cur_ptr]

\* the stub prune_key leaves in place of a subtree
StubOfZero(t) == HashNode(ZeroHash)

StubOf(t) == HashNode(ToDigest(t))

\* for node in temp_nodes.into_iter().rev(): the spine rebuilt from
\* temp_nodes[i] upwards
RECURSIVE PruneRebuild(_, _, _)
PruneRebuild(temp_nodes, i, root) ==
    IF i = 0 THEN root
    ELSE LET node == temp_nodes[i]
         IN  PruneRebuild(temp_nodes, i - 1,
                CASE node.kind = "SubTree" -> node.tree
                  [] node.kind = "Extension" ->
                        ExtensionNode(node.nibbles, root)
                  [] node.kind = "Branch" ->
                        [node.node EXCEPT !.children[node.index] = root])

\* Result<PartialTrie>
PruneOk(t) == [status |-> "ok", trie |-> t]
PruneErrRootEmpty(why) == [status |-> "err_empty", trie |-> EmptyTrie]

PruneErr(why) == [status |-> why, trie |-> EmptyTrie]
NoResult == [status |-> "none", trie |-> EmptyTrie]

PruneKeyNeverClones(t, key, kept_prefix_len) ==
    IF t.root = NoneNode THEN PruneErr("err_empty")
    ELSE IF kept_prefix_len = 0 THEN PruneOk(FromRootHash(ToDigest(t.root)))
    ELSE LET w == PruneWalk(<<>>, 0, key, t.root, kept_prefix_len)
         IN  CASE w.outcome \in {"clone", "stub"} ->
                    PruneOk(FromRootHash(ToDigest(t.root)))
               [] OTHER -> PruneErr(w.outcome)

\* prune_key(trie, key, kept_prefix_len)
PruneKey(t, key, kept_prefix_len) ==
    IF t.root = NoneNode THEN PruneErr("err_empty")
    ELSE IF kept_prefix_len = 0 THEN PruneOk(FromRootHash(ToDigest(t.root)))
    ELSE LET w == PruneWalk(<<>>, 0, key, t.root, kept_prefix_len)
         IN  CASE w.outcome = "clone" -> PruneOk(t)
               [] w.outcome = "stub" ->
                    LET temp_nodes ==
                            Append(w.temp_nodes, TempSubTree(StubOf(w.cur_ptr)))
                    IN  PruneOk(FromSubtree(
                            PruneRebuild(temp_nodes, Len(temp_nodes), t.root)))
               [] OTHER -> PruneErr(w.outcome)

\* the subtree prune_key was given, after the call: the to_digest of the
\* collapsed subtree has memoized the digests of its branches
RECURSIVE MemoizedAt(_, _, _, _)
MemoizedAt(n, cur_key, prefix_len, kept_prefix_len) ==
    IF ~(prefix_len <= kept_prefix_len) THEN Memoized(n)
    ELSE CASE n.kind = "Extension" /\ HasPrefix(cur_key, n.nibbles) ->
                [n EXCEPT !.child =
                    MemoizedAt(n.child, StripPrefix(cur_key, n.nibbles),
                               prefix_len + Len(n.nibbles), kept_prefix_len)]
           [] n.kind = "Branch" /\ cur_key # <<>> ->
                IF n.children[Head(cur_key)] = NoneNode THEN n
                ELSE [n EXCEPT !.children[Head(cur_key)] =
                        MemoizedAt(n.children[Head(cur_key)], Tail(cur_key),
                                   prefix_len + 1, kept_prefix_len)]
           [] OTHER -> n

PruneInputAfter(t, key, kept_prefix_len) ==
    IF t.root = NoneNode THEN t
    ELSE IF kept_prefix_len = 0 THEN [root |-> Memoized(t.root)]
    ELSE IF PruneWalk(<<>>, 0, key, t.root, kept_prefix_len).outcome = "stub"
         THEN [root |-> MemoizedAt(t.root, key, 0, kept_prefix_len)]
         ELSE t

\* ---- value_hash
\* Option<H256>, and the panic of BranchNode::value_hash
SomeHash(h) == <<"Some", h>>
NoneHash == <<"None">>
Panic == <<"panic">>

\* SubTree::value_hash and BranchNode::value_hash
RECURSIVE SubTreeValueHash(_, _)
RECURSIVE BranchValueHash(_, _)
SubTreeValueHash(n, key) ==
    CASE n.kind = "Hash" -> NoneHash
      [] n.kind = "Leaf" ->
            IF n.nibbles = key THEN SomeHash(n.value) ELSE SomeHash(ZeroHash)
      [] n.kind = "Extension" ->
            IF HasPrefix(key, n.nibbles)
            THEN SubTreeValueHash(n.child, StripPrefix(key, n.nibbles))
            ELSE SomeHash(ZeroHash)
      [] n.kind = "Branch" -> BranchValueHash(n, key)

BranchValueHash(n, key) ==
    IF key = <<>> THEN Panic
    ELSE IF n.children[Head(key)] # NoneNode
         THEN SubTreeValueHash(n.children[Head(key)], Tail(key))
         ELSE SomeHash(ZeroHash)

\* ---- the trie under check
PrefixLens == 0..(MaxKeyLen + 1)

NoCall == <<"none">>

TrieIdle ==
    /\ trie = EmptyTrie
    /\ trieKey = <<>>
    /\ prLen = 0
    /\ prResult = NoResult
    /\ vhResult = NoCall

TrieInit ==
    /\ \/ trie \in Tries /\ trieKey \in Keys
       \/ trie \in DeepTries /\ trieKey \in DeepKeys
    /\ prLen \in PrefixLens
    /\ prResult = NoResult
    /\ vhResult = NoCall

\* a call of prune_key(&trie, &key, kept_prefix_len)
PruneKeyCall ==
    /\ prResult' = PruneKey(trie, trieKey, prLen)
    /\ trie' = PruneInputAfter(trie, trieKey, prLen)
    /\ UNCHANGED <<trieKey, prLen, vhResult>>
    /\ UNCHANGED notTrieVars

\* a call of value_hash(key) on the root of the trie, a branch node
BranchValueHashCall ==
    /\ trie.root.kind = "Branch"
    /\ vhResult' = BranchValueHash(trie.root, trieKey)
    /\ UNCHANGED <<trie, trieKey, prLen, prResult>>
    /\ UNCHANGED notTrieVars

TrieNext ==
    \/ PruneKeyCall
    \/ BranchValueHashCall

\* ------------------------------------------------------------ trie diffs
Addresses == {1, 2}
\* Option<Nonce> and Option<H256>: 0 is None
NoneValue == 0
NonceOpts == {NoneValue, 1}
CodeHashOpts == {NoneValue, 1}
\* a PartialTrieDiff: path -> the digest of its replacement, or NoReplacement
DiffPaths == {1}
NoReplacement == 0
Replacements == {1, 2}
PartialTrieDiffs == [DiffPaths -> {NoReplacement} \cup Replacements]

AccountTrieDiffs ==
    [nonce : NonceOpts, code_hash : CodeHashOpts,
     state_trie_diff : PartialTrieDiffs]
\* an address without an entry in acc_trie_diffs
NoAccount == [nonce |-> 0 - 1, code_hash |-> 0 - 1,
              state_trie_diff |-> [p \in DiffPaths |-> NoReplacement]]
TxTrieDiffs ==
    [main_trie_diff : PartialTrieDiffs,
     acc_trie_diffs : [Addresses -> AccountTrieDiffs \cup {NoAccount}]]

\* merge_diff: the union of the paths, the left replacement on a path both
\* diffs hold; the two replacements of such a path must share their digest
DiffCollision(lhs, rhs) ==
    \E p \in DiffPaths :
        /\ lhs[p] # NoReplacement
        /\ rhs[p] # NoReplacement
        /\ lhs[p] # rhs[p]
MergeDiff(lhs, rhs) ==
    [p \in DiffPaths |-> IF lhs[p] # NoReplacement THEN lhs[p] ELSE rhs[p]]

\* debug_assert_eq!(lhs.nonce, rhs.nonce) or
\* debug_assert_eq!(lhs.code_hash, rhs.code_hash) fails
AccAssertFails(lhs, rhs) ==
    lhs.nonce # rhs.nonce \/ lhs.code_hash # rhs.code_hash

MergeAccRightBiased(lhs, rhs) ==
    [nonce |-> rhs.nonce, code_hash |-> rhs.code_hash,
     state_trie_diff |-> MergeDiff(lhs.state_trie_diff, rhs.state_trie_diff)]

\* merge_acc_trie_diff, when it returns
MergeAccTrieDiff(lhs, rhs) ==
    [nonce |-> lhs.nonce, code_hash |-> lhs.code_hash,
     state_trie_diff |-> MergeDiff(lhs.state_trie_diff, rhs.state_trie_diff)]

MergeAccountsKeepOccupied(lhs, rhs) ==
    [addr \in Addresses |->
        IF lhs[addr] # NoAccount THEN lhs[addr] ELSE rhs[addr]]

\* the accounts of both diffs: Entry::Occupied and Entry::Vacant
MergeAccounts(lhs, rhs) ==
    [addr \in Addresses |->
        IF rhs[addr] = NoAccount THEN lhs[addr]
        ELSE IF lhs[addr] # NoAccount
             THEN MergeAccTrieDiff(lhs[addr], rhs[addr])
             ELSE rhs[addr]]

\* an account of both diffs
Shared(lhs, rhs) ==
    {addr \in Addresses :
        lhs.acc_trie_diffs[addr] # NoAccount
        /\ rhs.acc_trie_diffs[addr] # NoAccount}

\* some call of merge_tx_trie_diff(lhs, rhs) panics: a debug assertion of
\* merge_acc_trie_diff in a build that has them, or merge_diff on
\* replacements of one path that differ
MergePanics(lhs, rhs, debug_assertions) ==
    \/ debug_assertions
         /\ \E addr \in Shared(lhs, rhs) :
               AccAssertFails(lhs.acc_trie_diffs[addr], rhs.acc_trie_diffs[addr])
    \/ \E addr \in Shared(lhs, rhs) :
          DiffCollision(lhs.acc_trie_diffs[addr].state_trie_diff,
                        rhs.acc_trie_diffs[addr].state_trie_diff)
    \/ DiffCollision(lhs.main_trie_diff, rhs.main_trie_diff)

NoDiff == [main_trie_diff |-> [p \in DiffPaths |-> NoReplacement],
           acc_trie_diffs |-> [addr \in Addresses |-> NoAccount]]
NotMerged == [status |-> "none", diff |-> NoDiff]

\* merge_tx_trie_diff(lhs, rhs)
MergeTxTrieDiff(lhs, rhs, debug_assertions) ==
    IF MergePanics(lhs, rhs, debug_assertions)
    THEN [status |-> "panic", diff |-> NoDiff]
    ELSE [status |-> "ok",
          diff |-> [main_trie_diff |->
                        MergeDiff(lhs.main_trie_diff, rhs.main_trie_diff),
                    acc_trie_diffs |->
                        MergeAccounts(lhs.acc_trie_diffs, rhs.acc_trie_diffs)]]

DiffIdle ==
    /\ diffA = NoDiff
    /\ diffB = NoDiff
    /\ mergedAB = NotMerged
    /\ mergedBA = NotMerged

DiffInit ==
    /\ diffA \in TxTrieDiffs
    /\ diffB \in TxTrieDiffs
    /\ mergedAB = NotMerged
    /\ mergedBA = NotMerged

\* merge_tx_trie_diff(&diffA, &diffB), in a build with or without debug
\* assertions
MergeCall ==
    /\ \E debug_assertions \in BOOLEAN :
          mergedAB' = MergeTxTrieDiff(diffA, diffB, debug_assertions)
    /\ UNCHANGED <<diffA, diffB, mergedBA>>
    /\ UNCHANGED notDiffVars

\* merge_tx_trie_diff(&diffB, &diffA)
MergeSwappedCall ==
    /\ \E debug_assertions \in BOOLEAN :
          mergedBA' = MergeTxTrieDiff(diffB, diffA, debug_assertions)
    /\ UNCHANGED <<diffA, diffB, mergedAB>>
    /\ UNCHANGED notDiffVars

DiffNext ==
    \/ MergeCall
    \/ MergeSwappedCall

\* ------------------------------------------------------------ PoW
\* largest nonce the miner tries
MaxNonce == 2

\* Difficulties are u64 and compute_diff works on them as i64.  They are
\* counted in a unit: with unit "1" they are small enough for no 64-bit
\* operation to overflow; with unit "2^40" the previous difficulty is a
\* multiple of 2^51 (of 2048 units), so that prev_diff / 2048 is a whole
\* number of units, and 2^64 is WordUnits units.
WordUnits == 2^24
HalfWordUnits == 2^23

\* seconds from the previous block's time_stamp to a time_stamp
Times == {0 - 25, 0 - 1, 0, 9, 10, 25, 995, 1000, 5000}
SmallDiffs == {0, 1, 1000, 2048, 4095, 100000}
LargeDiffs == {2048 * 2048, 4095 * 2048, 4096 * 2048, 8191 * 2048}

\* a block digest d is kept as U256::MAX / d, the largest difficulty it
\* meets the threshold of (in units); NoLimit for the digest 0
NoLimit == 2^30
DigestLimits == {0, 1500, 5000000, NoLimit}

\* x as i64 and x as u64
AsI64(x, unit) ==
    IF unit = "2^40"
    THEN ((x + HalfWordUnits) % WordUnits) - HalfWordUnits
    ELSE x
AsU64(x, unit) == IF unit = "2^40" THEN x % WordUnits ELSE x

\* an i64 operation with this exact result overflows
OverflowsI64(x, unit) ==
    unit = "2^40" /\ (x < 0 - HalfWordUnits \/ x >= HalfWordUnits)

\* i64 / i64 with a positive divisor: the quotient is rounded towards zero
TruncDiv(a, b) == IF a >= 0 THEN a \div b ELSE 0 - ((0 - a) \div b)

Max(a, b) == IF a >= b THEN a ELSE b

ComputeDiffKeepsPrev(time_stamp, prev, unit, debug) ==
    [status |-> "ok", diff |-> prev.diff]

\* compute_diff(time_stamp, prev_blk): an overflowing * or + panics in a
\* build with debug assertions and wraps in one without
ComputeDiff(time_stamp, prev, unit, debug) ==
    LET prev_diff == AsI64(prev.diff, unit)
        delta == TruncDiv(prev_diff, 2048)
        time_span == time_stamp - prev.time_stamp
        coeff == Max(1 - TruncDiv(time_span, 10), 0 - 99)
        product == delta * coeff
        sum == AsI64(product, unit) + prev_diff
    IN  IF debug /\ (OverflowsI64(product, unit) \/ OverflowsI64(sum, unit))
        THEN [status |-> "panic", diff |-> 0]
        ELSE [status |-> "ok", diff |-> AsU64(sum, unit)]

NonceIsValidAlways(b, debug) == "true"

\* nonce_is_valid(blk): "true", "false", or "panic" for the division by a
\* zero diff
NonceIsValid(b, debug) ==
    IF debug THEN "true"
    ELSE IF b.diff = 0 THEN "panic"
    ELSE IF b.diff <= b.digest THEN "true" ELSE "false"

NoPowBlock == [time_stamp |-> 0, diff |-> 0, nonce |-> 0, digest |-> 0]

VerifyConsensusNonceOnly(b, prev, unit, debug) ==
    IF NonceIsValid(b, debug) = "panic" THEN "panic"
    ELSE IF NonceIsValid(b, debug) = "false" THEN "Invalid nonce"
    ELSE "Ok"

\* verify_consensus(blk, prev_blk)
VerifyConsensus(b, prev, unit, debug) ==
    LET d == ComputeDiff(b.time_stamp, prev, unit, debug)
    IN  IF d.status = "panic" THEN "panic"
        ELSE IF b.diff # d.diff THEN "Invalid difficult."
        ELSE IF NonceIsValid(b, debug) = "panic" THEN "panic"
        ELSE IF NonceIsValid(b, debug) = "false" THEN "Invalid nonce"
        ELSE "Ok"

NextCandidateStaleDiff(b, now, diff, digest) ==
    [time_stamp |-> now, diff |-> b.diff, nonce |-> b.nonce + 1,
     digest |-> digest]

\* the body of the mining loop: blk.header.time_stamp = Utc::now(),
\* blk.diff = compute_diff(..), blk.nonce += 1; the changed block has
\* another digest
NextCandidate(b, now, diff, digest) ==
    [time_stamp |-> now, diff |-> diff, nonce |-> b.nonce + 1,
     digest |-> digest]

PowIdle ==
    /\ debugAssertions = FALSE
    /\ diffUnit = "1"
    /\ prev_blk = NoPowBlock
    /\ powBlk = NoPowBlock
    /\ minePc = "idle"
    /\ vblk = NoPowBlock
    /\ verifyResult = "none"

PowInit ==
    /\ debugAssertions \in BOOLEAN
    /\ diffUnit \in {"1", "2^40"}
    /\ \E d \in (IF diffUnit = "1" THEN SmallDiffs ELSE LargeDiffs) :
          prev_blk = [time_stamp |-> 0, diff |-> d, nonce |-> 0,
                      digest |-> NoLimit]
    /\ powBlk = NoPowBlock
    /\ minePc = "idle"
    /\ vblk = NoPowBlock
    /\ verifyResult = "none"

\* create_new_block(header, prev_blk) up to the loop: the first compute_diff
\* and the block with nonce zero
CreateNewBlock(time_stamp, digest) ==
    /\ minePc = "idle"
    /\ LET d == ComputeDiff(time_stamp, prev_blk, diffUnit, debugAssertions)
       IN  IF d.status = "panic"
           THEN minePc' = "panicked" /\ UNCHANGED powBlk
           ELSE /\ minePc' = "mining"
                /\ powBlk' = [time_stamp |-> time_stamp, diff |-> d.diff,
                           nonce |-> 0, digest |-> digest]
    /\ UNCHANGED <<debugAssertions, diffUnit, prev_blk, vblk, verifyResult>>
    /\ UNCHANGED notPowVars

\* one iteration of while !nonce_is_valid(&blk): a new time_stamp, the diff
\* recomputed, the nonce incremented
MineStep(now, digest) ==
    /\ minePc = "mining"
    /\ NonceIsValid(powBlk, debugAssertions) = "false"
    /\ powBlk.nonce < MaxNonce
    /\ LET d == ComputeDiff(now, prev_blk, diffUnit, debugAssertions)
       IN  IF d.status = "panic"
           THEN minePc' = "panicked" /\ UNCHANGED powBlk
           ELSE /\ powBlk' = NextCandidate(powBlk, now, d.diff, digest)
                /\ UNCHANGED minePc
    /\ UNCHANGED <<debugAssertions, diffUnit, prev_blk, vblk, verifyResult>>
    /\ UNCHANGED notPowVars

\* the loop ends and create_new_block returns blk, or nonce_is_valid panics
MineReturn ==
    /\ minePc = "mining"
    /\ NonceIsValid(powBlk, debugAssertions) # "false"
    /\ minePc' = IF NonceIsValid(powBlk, debugAssertions) = "true"
                 THEN "mined" ELSE "panicked"
    /\ UNCHANGED <<debugAssertions, diffUnit, prev_blk, powBlk, vblk,
                   verifyResult>>
    /\ UNCHANGED notPowVars

\* the mined block as it is, with its diff decremented by 1, or with another
\* nonce; a changed block has another digest
Submitted(digest) ==
    {powBlk, [powBlk EXCEPT !.nonce = @ + 1, !.digest = digest]}
    \cup (IF powBlk.diff > 0
          THEN {[powBlk EXCEPT !.diff = @ - 1, !.digest = digest]}
          ELSE {})

\* verify_consensus(&b, &prev_blk) on a submitted block
VerifyConsensusCall(b) ==
    /\ minePc = "mined"
    /\ vblk' = b
    /\ verifyResult' = VerifyConsensus(b, prev_blk, diffUnit, debugAssertions)
    /\ UNCHANGED <<debugAssertions, diffUnit, prev_blk, powBlk, minePc>>
    /\ UNCHANGED notPowVars

PowNext ==
    \/ \E time_stamp \in Times, digest \in DigestLimits :
          CreateNewBlock(time_stamp, digest)
    \/ \E now \in Times, digest \in DigestLimits : MineStep(now, digest)
    \/ MineReturn
    \/ \E digest \in DigestLimits : \E b \in Submitted(digest) :
          VerifyConsensusCall(b)

\* ------------------------------------------- the client network worker
\* requests and block proposals sent before shutdown
MaxMsgs == 2
\* the count of None results is kept up to this number
MaxSpins == 2

\* ClientNodeNetworkWorker::new: two empty unbounded channels, the one-shot,
\* the spawned loop at its select!
NetInit ==
    /\ req_rx = 0
    /\ block_proposal_rx = 0
    /\ reqClosed = FALSE
    /\ bpClosed = FALSE
    /\ shutdown_rx = "empty"
    /\ shutdown_tx = "Some"
    /\ handle = "Some"
    /\ taskPc = "select"
    /\ sdPc = "idle"
    /\ sdResult = "none"
    /\ noneCount = 0

\* a Fuse<UnboundedReceiver>::next() is ready: a message is queued, or the
\* channel is closed and drained (None, then None again from the Fuse)
StreamReady(queued, closed) == queued > 0 \/ closed

OneshotSendLost(o) == o

\* oneshot::Sender::send(()): the value is in the channel
OneshotSend(o) == "sent"

\* &mut shutdown_rx is ready
OneshotReady(o) == o = "sent"

\* the None results taken by the loop after the one-shot fired
CountNone == 
    IF shutdown_rx = "sent" /\ noneCount < MaxSpins THEN noneCount + 1
    ELSE noneCount

\* a holder of get_req_tx() sends a request: unbounded_send fails on a
\* closed channel
SendReq ==
    /\ ~reqClosed
    /\ req_rx < MaxMsgs
    /\ req_rx' = req_rx + 1
    /\ UNCHANGED <<block_proposal_rx, reqClosed, bpClosed, shutdown_rx,
                   shutdown_tx, handle, taskPc, sdPc, sdResult, noneCount>>
    /\ UNCHANGED notNetVars

\* a holder of get_block_proposal_tx() sends a block proposal
SendBlockProposal ==
    /\ ~bpClosed
    /\ block_proposal_rx < MaxMsgs
    /\ block_proposal_rx' = block_proposal_rx + 1
    /\ UNCHANGED <<req_rx, reqClosed, bpClosed, shutdown_rx, shutdown_tx,
                   handle, taskPc, sdPc, sdResult, noneCount>>
    /\ UNCHANGED notNetVars

\* select! completes with req = req_rx.next(): Some(req) starts
\* forward_tx_to_storage_node, None goes round the loop
SelectReq ==
    /\ taskPc = "select"
    /\ StreamReady(req_rx, reqClosed)
    /\ IF req_rx > 0
       THEN /\ req_rx' = req_rx - 1
            /\ taskPc' = "forward_tx"
            /\ UNCHANGED noneCount
       ELSE /\ noneCount' = CountNone
            /\ UNCHANGED <<req_rx, taskPc>>
    /\ UNCHANGED <<block_proposal_rx, reqClosed, bpClosed, shutdown_rx,
                   shutdown_tx, handle, sdPc, sdResult>>
    /\ UNCHANGED notNetVars

\* select! completes with block_proposal = block_proposal_rx.next()
SelectBlockProposal ==
    /\ taskPc = "select"
    /\ StreamReady(block_proposal_rx, bpClosed)
    /\ IF block_proposal_rx > 0
       THEN /\ block_proposal_rx' = block_proposal_rx - 1
            /\ taskPc' = "broadcast"
            /\ UNCHANGED noneCount
       ELSE /\ noneCount' = CountNone
            /\ UNCHANGED <<block_proposal_rx, taskPc>>
    /\ UNCHANGED <<req_rx, reqClosed, bpClosed, shutdown_rx, shutdown_tx,
                   handle, sdPc, sdResult>>
    /\ UNCHANGED notNetVars

\* the spawned task ends and drops what it owns: each receiver closes its
\* channel and drops the messages still queued, so a later unbounded_send
\* fails
DropReceivers ==
    /\ req_rx' = 0
    /\ block_proposal_rx' = 0
    /\ reqClosed' = TRUE
    /\ bpClosed' = TRUE

\* select! completes with _ = &mut shutdown_rx: break, the task ends
SelectShutdown ==
    /\ taskPc = "select"
    /\ OneshotReady(shutdown_rx)
    /\ taskPc' = "exited"
    /\ DropReceivers
    /\ UNCHANGED <<shutdown_rx, shutdown_tx, handle, sdPc, sdResult,
                   noneCount>>
    /\ UNCHANGED notNetVars

\* forward_tx_to_storage_node(req).await is over: it returned (errors are
\* logged), or its debug_assert_ne! failed and the task ends in a panic
ForwardDone(outcome) ==
    /\ taskPc = "forward_tx"
    /\ IF outcome = "returned"
       THEN /\ taskPc' = "select"
            /\ UNCHANGED <<req_rx, block_proposal_rx, reqClosed, bpClosed>>
       ELSE /\ taskPc' = "panicked"
            /\ DropReceivers
    /\ UNCHANGED <<shutdown_rx, shutdown_tx, handle, sdPc, sdResult,
                   noneCount>>
    /\ UNCHANGED notNetVars

\* broadcast_block_proposal_to_storage_node(..).await.ok() is over
BroadcastDone ==
    /\ taskPc = "broadcast"
    /\ taskPc' = "select"
    /\ UNCHANGED <<req_rx, block_proposal_rx, reqClosed, bpClosed,
                   shutdown_rx, shutdown_tx, handle, sdPc, sdResult,
                   noneCount>>
    /\ UNCHANGED notNetVars

\* shutdown(): self.req_tx.close_channel()
ShutdownCloseReq ==
    /\ sdPc \in {"idle", "done"}
    /\ reqClosed' = TRUE
    /\ sdPc' = "close_bp"
    /\ UNCHANGED <<req_rx, block_proposal_rx, bpClosed, shutdown_rx,
                   shutdown_tx, handle, taskPc, sdResult, noneCount>>
    /\ UNCHANGED notNetVars

\* shutdown(): self.block_proposal_tx.close_channel()
ShutdownCloseBlockProposal ==
    /\ sdPc = "close_bp"
    /\ bpClosed' = TRUE
    /\ sdPc' = "send"
    /\ UNCHANGED <<req_rx, block_proposal_rx, reqClosed, shutdown_rx,
                   shutdown_tx, handle, taskPc, sdResult, noneCount>>
    /\ UNCHANGED notNetVars

\* shutdown(): self.shutdown_tx.take() and send(()).ok(), or the bail
ShutdownSend ==
    /\ sdPc = "send"
    /\ IF shutdown_tx = "Some"
       THEN /\ shutdown_tx' = "None"
            /\ shutdown_rx' = IF taskPc \in {"exited", "panicked"}
                              THEN shutdown_rx
                              ELSE OneshotSend(shutdown_rx)
            /\ sdPc' = "join"
            /\ UNCHANGED sdResult
       ELSE /\ sdPc' = "done"
            /\ sdResult' = "Already shutdown."
            /\ UNCHANGED <<shutdown_tx, shutdown_rx>>
    /\ UNCHANGED <<req_rx, block_proposal_rx, reqClosed, bpClosed, handle,
                   taskPc, noneCount>>
    /\ UNCHANGED notNetVars

\* shutdown(): self.handle.take(), or the bail.  The handle is taken before
\* it is awaited: while shutdown() waits the worker holds no handle
ShutdownTakeHandle ==
    /\ sdPc = "join"
    /\ IF handle = "Some"
       THEN /\ handle' = "None"
            /\ sdPc' = "await"
            /\ UNCHANGED sdResult
       ELSE /\ sdPc' = "done"
            /\ sdResult' = "Already shutdown."
            /\ UNCHANGED handle
    /\ UNCHANGED <<req_rx, block_proposal_rx, reqClosed, bpClosed,
                   shutdown_rx, shutdown_tx, taskPc, noneCount>>
    /\ UNCHANGED notNetVars

\* shutdown(): handler.await? and Ok(()): the join handle is ready when the
\* task has ended, with an error when it panicked
ShutdownAwait ==
    /\ sdPc = "await"
    /\ taskPc \in {"exited", "panicked"}
    /\ sdResult' = IF taskPc = "exited" THEN "Ok" ELSE "JoinError"
    /\ sdPc' = "done"
    /\ UNCHANGED <<req_rx, block_proposal_rx, reqClosed, bpClosed,
                   shutdown_rx, shutdown_tx, handle, taskPc, noneCount>>
    /\ UNCHANGED notNetVars

\* the caller drops the future of shutdown() while it waits at
\* handler.await: the taken handle goes with it and the task runs on
ShutdownCancel ==
    /\ sdPc = "await"
    /\ sdResult' = "dropped"
    /\ sdPc' = "done"
    /\ UNCHANGED <<req_rx, block_proposal_rx, reqClosed, bpClosed,
                   shutdown_rx, shutdown_tx, handle, taskPc, noneCount>>
    /\ UNCHANGED notNetVars

\* the steps of the spawned task and of the caller of shutdown()
TaskNext ==
    \/ SelectReq
    \/ SelectBlockProposal
    \/ SelectShutdown
    \/ \E outcome \in {"returned", "panicked"} : ForwardDone(outcome)
    \/ BroadcastDone

ShutdownNext ==
    \/ ShutdownCloseReq
    \/ ShutdownCloseBlockProposal
    \/ ShutdownSend
    \/ ShutdownTakeHandle
    \/ ShutdownAwait
    \/ ShutdownCancel

NetNext ==
    \/ SendReq
    \/ SendBlockProposal
    \/ TaskNext
    \/ ShutdownNext

\* ------------------------------------------------- BranchNode (branch.rs)
BranchNames == {"a", "b"}
\* what a child slot is set to: None, a stub or a leaf
ChildValues == Simple(0)

\* the digests of the children a branch has now
ChildDigests(n) ==
    [i \in U4 |->
        IF n.children[i] = NoneNode THEN NoHash ELSE ToDigest(n.children[i])]

\* BranchNode::default(): no child, no memoized digest
BranchInit ==
    /\ branches = [x \in BranchNames |-> BranchNodeNew([i \in U4 |-> NoneNode])]
    /\ branchDigest = [of |-> "none", digest |-> NoHash]

\* BranchNode::new(children)
BranchNewCall(x, children) ==
    /\ branches' = [branches EXCEPT ![x] = BranchNodeNew(children)]
    /\ UNCHANGED branchDigest
    /\ UNCHANGED notBranchVars

\* x.to_digest(): the memoized digest, or the computed one, which is
\* memoized
ToDigestCall(x) ==
    /\ branchDigest' = [of |-> x, digest |-> ToDigest(branches[x])]
    /\ branches' = [branches EXCEPT ![x] = Memoized(branches[x])]
    /\ UNCHANGED notBranchVars

\* y = x.clone(): the derived Clone copies children and node_hash
CloneCall(x, y) ==
    /\ x # y
    /\ branches' = [branches EXCEPT ![y] = branches[x]]
    /\ UNCHANGED branchDigest
    /\ UNCHANGED notBranchVars

\* *n.get_child_mut(index) = child: the slot is written, node_hash is not
\* touched
GetChildMut(n, index, child) == [n EXCEPT !.children[index] = child]

GetChildMutCall(x, index, child) ==
    /\ branches' = [branches EXCEPT ![x] = GetChildMut(branches[x], index, child)]
    /\ UNCHANGED branchDigest
    /\ UNCHANGED notBranchVars

BranchNext ==
    \/ \E x \in BranchNames, children \in [U4 -> ChildValues] :
          BranchNewCall(x, children)
    \/ \E x \in BranchNames : ToDigestCall(x)
    \/ \E x \in BranchNames, y \in BranchNames : CloneCall(x, y)
    \/ \E x \in BranchNames, index \in U4, child \in ChildValues :
          GetChildMutCall(x, index, child)

\* ------------------------------------------------- PubSub (pubsub.rs)
\* events are queued up to this number
MaxPending == 3

\* enum PubSubTopic
PubSubTopic == {"TxProposal", "BlockProposal"}

\* into_topic_hash: the topic's name, unhashed
IntoTopicHash(topic) ==
    IF topic = "TxProposal" THEN "tx_proposal" ELSE "block_proposal"

\* the static map from the two topic hashes back to the topics
TOPIC_MAP ==
    [h \in {IntoTopicHash(topic) : topic \in PubSubTopic} |->
        CHOOSE topic \in PubSubTopic : IntoTopicHash(topic) = h]

\* the topics gossipsub is subscribed to by new, whatever its argument
Subscriptions ==
    {IntoTopicHash(topic) : topic \in {"BlockProposal", "TxProposal"}}

\* topic hashes a message may carry: the two subscribed ones and another
TopicHashes == Subscriptions \cup {"other"}

\* what postcard::from_bytes gives: a value, or an error
DecodeResults == {[ok |-> TRUE, input |-> v] : v \in {1, 2}} \cup {[ok |-> FALSE]}

\* the bytes of a message, by what they decode to as each proposal type
Datas == [PubSubTopic -> DecodeResults]

\* postcard::from_bytes(data.as_slice()) at the type the topic stands for
FromBytes(topic, data) == data[topic]

\* GossipsubEvent: a Message with data and 0 to 2 topics, or another event
GossipsubEvents ==
    {[kind |-> "Message", data |-> d, topics |-> ts] :
        d \in Datas,
        ts \in {<<>>} \cup {<<h>> : h \in TopicHashes}
                  \cup {<<h, g>> : h, g \in TopicHashes}}
      \cup {[kind |-> "Subscribed"], [kind |-> "Unsubscribed"]}

\* before PubSub::new
PubSubInit ==
    /\ topics = {}
    /\ pending_events = <<>>
    /\ pubsubPc = "unbuilt"
    /\ pubsubLast = [op |-> "none"]

\* PubSub::new(keypair, topics): an empty queue and the topics as a set
PubSubNew(topic_list) ==
    /\ pubsubPc = "unbuilt"
    /\ topics' = topic_list
    /\ pending_events' = <<>>
    /\ pubsubPc' = "ready"
    /\ pubsubLast' = [op |-> "new"]
    /\ UNCHANGED notPubSubVars

\* inject_event on a queue: the queue after it, or a panic.  topics[0] of an
\* empty Vec panics; an unknown first topic and one outside the set return;
\* from_bytes(..).expect(..) panics on bytes that do not decode
InjectEventResult(queue, topic_set, event) ==
    IF event.kind # "Message"
    THEN [panicked |-> FALSE, queue |-> queue]
    ELSE IF Len(event.topics) = 0
    THEN [panicked |-> TRUE, queue |-> queue]
    ELSE IF event.topics[1] \notin DOMAIN TOPIC_MAP
    THEN [panicked |-> FALSE, queue |-> queue]
    ELSE LET topic == TOPIC_MAP[event.topics[1]]
             input == FromBytes(topic, event.data)
         IN  IF topic \notin topic_set
             THEN [panicked |-> FALSE, queue |-> queue]
             ELSE IF ~input.ok
             THEN [panicked |-> TRUE, queue |-> queue]
             ELSE [panicked |-> FALSE,
                   queue |-> Append(queue,
                                [kind |-> topic, input |-> input.input])]

\* inject_event(event)
InjectEvent(event) ==
    /\ pubsubPc = "ready"
    /\ Len(pending_events) < MaxPending
    /\ LET r == InjectEventResult(pending_events, topics, event)
       IN  /\ pending_events' = r.queue
           /\ pubsubPc' = IF r.panicked THEN "panicked" ELSE "ready"
    /\ pubsubLast' = [op |-> "inject", event |-> event]
    /\ UNCHANGED topics
    /\ UNCHANGED notPubSubVars

\* poll_inner on a queue: Ready(GenerateEvent(front)) and the rest, or
\* Pending
PollInnerResult(queue) ==
    IF Len(queue) > 0
    THEN [poll |-> [kind |-> "Ready", event |-> Head(queue)],
          queue |-> Tail(queue)]
    ELSE [poll |-> [kind |-> "Pending"], queue |-> queue]

\* poll_inner(cx, params)
PollInner ==
    /\ pubsubPc = "ready"
    /\ LET r == PollInnerResult(pending_events)
       IN  /\ pending_events' = r.queue
           /\ pubsubLast' = [op |-> "poll", result |-> r.poll]
    /\ UNCHANGED <<topics, pubsubPc>>
    /\ UNCHANGED notPubSubVars

PubSubNext ==
    \/ \E topic_list \in SUBSET PubSubTopic : PubSubNew(topic_list)
    \/ \E event \in GossipsubEvents : InjectEvent(event)
    \/ PollInner

\* ------------------------------------------------------------ specifications
\* the engine with its producer, its consumer, its workers and its drop
Init ==
    EngineInit /\ CommitInit /\ TrieIdle /\ DiffIdle /\ PowIdle /\ NetInit
        /\ BranchInit /\ PubSubInit

SpecEngine == Init /\ [][EngineNext]_vars

\* one node committing block proposals, one call at a time
SpecCommit == Init /\ [][CommitNext]_vars

\* one partial trie, pruned and read
InitTrie ==
    EngineInit /\ CommitInit /\ TrieInit /\ DiffIdle /\ PowIdle /\ NetInit
        /\ BranchInit /\ PubSubInit

SpecTrie == InitTrie /\ [][TrieNext]_vars

\* two diffs, merged in both orders
InitDiff ==
    EngineInit /\ CommitInit /\ TrieIdle /\ DiffInit /\ PowIdle /\ NetInit
        /\ BranchInit /\ PubSubInit

SpecDiff == InitDiff /\ [][DiffNext]_vars

\* one miner and one verifier on top of one previous block
InitPow ==
    EngineInit /\ CommitInit /\ TrieIdle /\ DiffIdle /\ PowInit /\ NetInit
        /\ BranchInit /\ PubSubInit

SpecPow == InitPow /\ [][PowNext]_vars

\* two branch nodes, digested, cloned and changed
SpecBranch == Init /\ [][BranchNext]_vars

\* one PubSub, built, fed gossip events and polled
SpecPubSub == Init /\ [][PubSubNext]_vars

\* the network worker, its senders and the caller of shutdown()
SpecNet == Init /\ [][NetNext]_vars

\* the same with the scheduling the runtime gives: a shutdown() that was
\* called goes on, the awaited forward and broadcast come to an end, and
\* select!, which polls its branches from a random one, does not pass over
\* a shutdown branch that stays ready for ever
SpecNetFair ==
    /\ SpecNet
    /\ WF_vars(ShutdownCloseBlockProposal \/ ShutdownSend
                 \/ ShutdownTakeHandle \/ ShutdownAwait)
    /\ WF_vars(\E outcome \in {"returned", "panicked"} : ForwardDone(outcome))
    /\ WF_vars(BroadcastDone)
    /\ WF_vars(SelectShutdown)

\* ------------------------------------------------------------ state functions
\* push_task calls so far
Pushed == nextId - 1

\* push_task has put task t into the injector
Enqueued(t) == t < nextId /\ ~(prodPc = "push" /\ prodTask = t)

\* a task is queued: in the injector or in a local deque
TaskQueued ==
    \/ task_queue # <<>>
    \/ \E w \in Workers : local_task_queue[w] # <<>>

\* no task is in flight: none is between the fetch_add and the push of
\* push_task, in the injector, in a local deque or being executed
Quiescent ==
    /\ prodPc # "push"
    /\ ~TaskQueued
    /\ \A w \in Workers : task[w] = NoTask

\* results popped from the queue whose fetch_sub is still to come
PopInProgress == IF consPc = "sub" THEN 1 ELSE 0

\* worker w is blocked in parker.park(): its token is not set
Blocked(w) == pc[w] = "park" /\ ~token[w]

RECURSIVE SumLen(_, _)
SumLen(q, w) == IF w = 0 THEN 0 ELSE Len(q[w]) + SumLen(q, w - 1)

\* tasks left in the injector and the local deques
QueuedCount == Len(task_queue) + SumLen(local_task_queue, NumWorkers)

\* ---- the path of a key through a trie
\* the prefix length at which the first node at or beyond min_len starts on
\* the path of key; -1 when the path ends before (a leaf, a stub, a missing
\* child, a key that leaves the trie or ends)
RECURSIVE Boundary(_, _, _, _)
Boundary(n, key, len, min_len) ==
    IF len >= min_len THEN len
    ELSE CASE n.kind = "Extension" /\ HasPrefix(key, n.nibbles) ->
                Boundary(n.child, StripPrefix(key, n.nibbles),
                         len + Len(n.nibbles), min_len)
           [] n.kind = "Branch" /\ key # <<>> ->
                IF n.children[Head(key)] = NoneNode THEN 0 - 1
                ELSE Boundary(n.children[Head(key)], Tail(key), len + 1,
                              min_len)
           [] OTHER -> 0 - 1

\* the node that starts at prefix length d on the path of key; NoneNode when
\* the path does not get there
RECURSIVE SubtreeAt(_, _, _, _)
SubtreeAt(n, key, len, d) ==
    IF len = d THEN n
    ELSE CASE n.kind = "Extension" /\ HasPrefix(key, n.nibbles) ->
                SubtreeAt(n.child, StripPrefix(key, n.nibbles),
                          len + Len(n.nibbles), d)
           [] n.kind = "Branch" /\ key # <<>> ->
                IF n.children[Head(key)] = NoneNode THEN NoneNode
                ELSE SubtreeAt(n.children[Head(key)], Tail(key), len + 1, d)
           [] OTHER -> NoneNode

\* the subtree with the node at prefix length d on the path of key replaced
RECURSIVE ReplaceAt(_, _, _, _, _)
ReplaceAt(n, key, len, d, new) ==
    IF len = d THEN new
    ELSE CASE n.kind = "Extension" ->
                [n EXCEPT !.child =
                    ReplaceAt(n.child, StripPrefix(key, n.nibbles),
                              len + Len(n.nibbles), d, new)]
           [] n.kind = "Branch" ->
                [n EXCEPT !.children[Head(key)] =
                    ReplaceAt(n.children[Head(key)], Tail(key), len + 1, d,
                              new)]

\* how the path of key through a subtree ends and the prefix length at
\* which the node it ends in starts: in a Hash stub, in a leaf, in an
\* extension the key diverges from, in an empty slot of a branch, or with
\* the key exhausted at a branch
RECURSIVE PathEnd(_, _, _)
PathEnd(n, key, len) ==
    CASE n.kind = "Hash" -> [how |-> "hash", at |-> len]
      [] n.kind = "Leaf" -> [how |-> "leaf", at |-> len]
      [] n.kind = "Extension" ->
            IF HasPrefix(key, n.nibbles)
            THEN PathEnd(n.child, StripPrefix(key, n.nibbles),
                         len + Len(n.nibbles))
            ELSE [how |-> "diverge", at |-> len]
      [] n.kind = "Branch" ->
            IF key = <<>> THEN [how |-> "key_end", at |-> len]
            ELSE IF n.children[Head(key)] = NoneNode
                 THEN [how |-> "empty", at |-> len]
                 ELSE PathEnd(n.children[Head(key)], Tail(key), len + 1)
      [] OTHER -> [how |-> "none", at |-> len]

\* a subtree without its memoized digests: PartialEq for BranchNode compares
\* the children only
RECURSIVE Structure(_)
Structure(n) ==
    CASE n.kind = "Extension" -> [n EXCEPT !.child = Structure(n.child)]
      [] n.kind = "Branch" ->
            [kind |-> "Branch",
             children |-> [i \in U4 |-> Structure(n.children[i])],
             node_hash |-> NoHash]
      [] OTHER -> n

\* ---- compatibility of two diffs
\* no path is replaced by both diffs
PathDisjoint(a, b) ==
    \A p \in DiffPaths : a[p] = NoReplacement \/ b[p] = NoReplacement

TxPathDisjoint(a, b) ==
    /\ PathDisjoint(a.main_trie_diff, b.main_trie_diff)
    /\ \A addr \in Shared(a, b) :
          PathDisjoint(a.acc_trie_diffs[addr].state_trie_diff,
                       b.acc_trie_diffs[addr].state_trie_diff)

\* the accounts of both diffs have the same nonce and the same code_hash
FieldsAgree(a, b) ==
    \A addr \in Shared(a, b) :
        ~AccAssertFails(a.acc_trie_diffs[addr], b.acc_trie_diffs[addr])

\* the replacements of every path of both diffs have the same digest
OverlapsAgree(a, b) ==
    /\ ~DiffCollision(a.main_trie_diff, b.main_trie_diff)
    /\ \A addr \in Shared(a, b) :
          ~DiffCollision(a.acc_trie_diffs[addr].state_trie_diff,
                         b.acc_trie_diffs[addr].state_trie_diff)

\* ---- the re-targeting formula
\* prev_diff + (prev_diff / 2048) * max(1 - span / 10, -99) on the integers,
\* the quotients rounded towards zero
RetargetFormula(prev_diff, span) ==
    prev_diff + TruncDiv(prev_diff, 2048) * Max(1 - TruncDiv(span, 10), 0 - 99)

\* ------------------------------------------------------------ claims
\* C1 as stated: at every quiescent point the successful pops plus
\* remaining_tasks() equal the push_task calls, failing executions included.
C1_PopsPlusRemainingIsPushes ==
    Quiescent => nPop + remaining_tasks = Pushed

\* C1 as amended: at every quiescent point the successful pops plus the
\* failed executions plus remaining_tasks() equal the push_task calls, and
\* remaining_tasks() is the number of results not yet delivered, so it is 0
\* once every result has been popped.
C1_CounterConservation ==
    Quiescent =>
        /\ nPop + nFail + remaining_tasks = Pushed
        /\ remaining_tasks = Len(result_queue) + PopInProgress
        /\ (result_queue = <<>> /\ consPc # "sub" => remaining_tasks = 0)

\* C1 witness: every task was pushed, one failed, one was popped, and the
\* engine is quiescent and drained.
C1_Witness ==
    /\ Quiescent
    /\ Pushed = MaxTasks
    /\ nFail >= 1
    /\ nPop >= 1
    /\ result_queue = <<>>
    /\ consPc = "idle"

\* C2: no wake-up is lost.  While the engine is live and no push_task is in
\* progress, a queued task always has a worker that is not blocked in park to
\* take it; otherwise the task waits for a later push_task or for drop.
C2_NoLostWakeup ==
    (dropPc = "live" /\ prodPc = "idle" /\ TaskQueued)
        => \E w \in Workers : ~Blocked(w)

\* C3: each pushed task is executed at most once, its id is pushed to the
\* result queue at most once, and only pushed tasks are executed or reported.
C3_AtMostOnce ==
    \A t \in Tasks :
        /\ execCount[t] <= 1
        /\ resCount[t] <= 1
        /\ resCount[t] <= execCount[t]
        /\ (execCount[t] > 0 => Enqueued(t))

\* C3 witness: every task has been executed, once, and one has its result.
C3_Witness ==
    /\ \A t \in Tasks : execCount[t] = 1
    /\ \E t \in Tasks : resCount[t] = 1
    /\ \A w \in Workers : pc[w] # "exec"

\* C4: within-task atomicity.  The step in which a worker finishes its task
\* either pushes exactly one result carrying the task's id and leaves the
\* counter alone, or pushes nothing and decrements the counter by one; in
\* both cases the worker goes on to search for the next task.
C4_TaskStep(w) ==
    (pc[w] = "exec" /\ pc'[w] # "exec") =>
        /\ pc'[w] = "find"
        /\ \/ /\ result_queue' = Append(result_queue, task[w])
              /\ remaining_tasks' = remaining_tasks
           \/ /\ result_queue' = result_queue
              /\ remaining_tasks' = remaining_tasks - 1

C4_WithinTaskAtomicity == [][\A w \in Workers : C4_TaskStep(w)]_vars

\* C4 witness: one execution has failed and the result of another is queued.
C4_Witness == nFail >= 1 /\ result_queue # <<>>

\* C5: drop completes.  Once drop has stored the shutdown flag, either it has
\* joined every worker or drop or some worker can take a step.
C5_DropCompletes ==
    dropPc \in {"drain", "join"}
        => ENABLED (DropNext \/ \E w \in Workers : WorkerNext(w))

\* C6 as stated: once the shutdown flag is raised the queued tasks are
\* discarded, that is, no worker takes a task any more.
C6_NoTaskTakenAfterShutdown ==
    [][shutdown_flag =>
          \A w \in Workers : pc[w] # "exec" => pc'[w] # "exec"]_vars

\* C6 as amended: the tasks still queued once every worker has returned from
\* run are discarded: none was executed or has a result, and remaining_tasks
\* still counts them beside the results left in the queue.
C6_DiscardedAfterWorkersReturn ==
    (\A w \in Workers : pc[w] = "done") =>
        /\ \A i \in 1..Len(task_queue) :
              execCount[task_queue[i]] = 0 /\ resCount[task_queue[i]] = 0
        /\ \A w \in Workers : local_task_queue[w] = <<>>
        /\ remaining_tasks = Len(result_queue) + QueuedCount

\* C6 witness: every worker has returned and a task is left in the injector,
\* while another task was executed.
C6_Witness ==
    /\ \A w \in Workers : pc[w] = "done"
    /\ task_queue # <<>>
    /\ \E t \in Tasks : execCount[t] = 1

\* C7: pop_result does not block and has these effects only: on an empty
\* queue it returns None and changes neither the counter nor a queue; else
\* it removes the first result and then decrements the counter by one.
C7_PopStep ==
    /\ (consPc = "pop" /\ consPc' = "idle") =>
          /\ result_queue = <<>>
          /\ UNCHANGED <<remaining_tasks, result_queue, task_queue,
                         local_task_queue, unparker_queue>>
    /\ (consPc = "pop" /\ consPc' = "sub") =>
          /\ result_queue # <<>>
          /\ result_queue' = Tail(result_queue)
          /\ consHeld' = Head(result_queue)
          /\ UNCHANGED <<remaining_tasks, task_queue, local_task_queue,
                         unparker_queue>>
    /\ (consPc = "sub" /\ consPc' # "sub") =>
          /\ remaining_tasks' = remaining_tasks - 1
          /\ UNCHANGED <<result_queue, task_queue, local_task_queue,
                         unparker_queue>>
    /\ (consPc = "pop" /\ result_queue # <<>>) => consPc' # "idle"

C7_PopResultEffect ==
    /\ [](consPc = "pop" => ENABLED PopResultDequeue)
    /\ [][C7_PopStep]_vars

\* C7 witness: pop_result is about to find the queue empty after an earlier
\* call has popped a result.
C7_Witness ==
    /\ consPc = "pop"
    /\ ~consWait
    /\ result_queue = <<>>
    /\ nPop >= 1

\* C8: the latest height never decreases and advances by one per
\* commit; a proposal at or below the latest height changes neither the
\* persisted blocks nor the latest header, and a proposal that leaves a gap
\* is not written.
C8_HeightStep ==
    /\ latest'.height \in {latest.height, latest.height + 1}
    /\ (commitPc = "writing" /\ commitBlk.height <= latest.height)
          => UNCHANGED <<db_block, latest>>
    /\ (commitPc = "writing" /\ commitBlk.height > latest.height + 1)
          => UNCHANGED db_block

C8_CommitsFollowHeight == [][C8_HeightStep]_vars

\* C9: the latest header is set only when the commit resumes from a DB write
\* that succeeded, to the block of that write; a commit that returns an error
\* (from building the batch or from write_async) leaves the latest header
\* and the DB as they were; so the latest header always names the genesis
\* block or a block the DB has written.
C9_Step ==
    /\ latest' # latest
          => /\ commitPc = "resume"
             /\ writeOk
             /\ latest' = commitBlk
             /\ commitBlk \in persisted
    /\ commitResult' = "err"
          => UNCHANGED <<latest, db_block, db_tx_col, db_state>>
    /\ (commitPc = "writing" /\ ~writeOk')
          => UNCHANGED <<latest, db_block, db_tx_col, db_state>>

C9_FailedCommitNotAdvertised ==
    /\ [](latest = Genesis \/ latest \in persisted)
    /\ [][C9_Step]_vars

\* C9 witness: a DB write has failed and the commit is about to return the
\* error, while the latest header names an earlier block.
C9_Witness ==
    /\ commitPc = "resume"
    /\ ~writeOk
    /\ latest # Genesis
    /\ commitBlk # latest

\* C10: committing the proposal B a second time, after a commit of B by the
\* same function has returned Ok, changes neither the DB nor the latest
\* header.
C10_RecommitIsNoOp ==
    [][(/\ commitPc \in {"writing", "resume"}
        /\ commitProp = ProposalB
        /\ commitFn \in committedB)
          => UNCHANGED <<db_block, db_tx_col, db_state, latest>>]_vars

\* C11: the batch a storage node's commit hands to its one write_async holds
\* the block, every transaction of the proposal and the state update, and
\* the DB takes all of it or nothing; the batch of the client's
\* commit_block holds the block alone, and its write changes
\* neither the transaction column nor the state column.  The DB changes only
\* in the write_async step of a call.
C11_BatchContents ==
    commitPc \in {"writing", "resume"} =>
        /\ commitFn = "storage" =>
              /\ db_tx.block = commitProp.block
              /\ \A i \in 1..Len(commitProp.txs) :
                    \E e \in db_tx.txs : e[2] = commitProp.txs[i]
              /\ db_tx.nodes = commitProp.state_update
        /\ commitFn = "client" =>
              db_tx = [block |-> commitProp.block, txs |-> {}, nodes |-> {}]

C11_WriteStep ==
    /\ commitPc = "writing" =>
          \/ /\ writeOk'
             /\ db_block'[db_tx.block.height] = db_tx.block
             /\ \A e \in db_tx.txs : db_tx_col'[e[1]] = e[2]
             /\ db_state' = db_state \cup db_tx.nodes
             /\ commitFn = "client" => UNCHANGED <<db_tx_col, db_state>>
          \/ /\ ~writeOk'
             /\ UNCHANGED <<db_block, db_tx_col, db_state>>
    /\ commitPc # "writing" => UNCHANGED <<db_block, db_tx_col, db_state>>
    /\ commitPc = "writing" => commitPc' = "resume"
    /\ commitPc = "resume" => commitPc' = "idle"

\* C11, in every state and for every step
C11_SingleAtomicBatch == []C11_BatchContents /\ [][C11_WriteStep]_vars

\* C12: the trie prune_key returns has the root digest of the trie it was
\* given, for every trie, key and kept_prefix_len.
C12_PrunePreservesDigest ==
    prResult.status = "ok" =>
        ToDigest(prResult.trie.root) = ToDigest(trie.root)

\* C12 witness: prune_key with kept_prefix_len >= 1 has returned a trie that
\* is not the one it was given and whose root is a branch.
C12_Witness ==
    /\ prResult.status = "ok"
    /\ prLen >= 1
    /\ prResult.trie.root.kind = "Branch"
    /\ prResult.trie # trie

\* C13 as stated: the nodes covering the top kept_prefix_len nibbles of the
\* key's path are kept and the node beneath that prefix is collapsed: where
\* the path has a node starting at or beyond kept_prefix_len, the first such
\* node is a Hash stub of its digest in the result.
C13_StubAtKeptPrefix ==
    prResult.status = "ok" =>
        LET d == Boundary(trie.root, trieKey, 0, prLen)
        IN  d >= 0 =>
              SubtreeAt(prResult.trie.root, trieKey, 0, d)
                  = HashNode(ToDigest(SubtreeAt(trie.root, trieKey, 0, d)))

\* C13 as amended: for kept_prefix_len = 0 the result is the root-hash stub.
\* For kept_prefix_len >= 1 the walk goes on while the visited prefix length
\* is <= kept_prefix_len, so every node on the key's path that starts at a
\* prefix length <= kept_prefix_len stays materialized, and the first node
\* that starts beyond kept_prefix_len is replaced by a Hash stub of its
\* digest, the rest of the trie being as it was; when the path has no such
\* node (it ends in a leaf or leaves the trie before) the trie is returned
\* as it was.
C13_StubBeyondKeptPrefix ==
    prResult.status = "ok" =>
        IF prLen = 0
        THEN prResult.trie = FromRootHash(ToDigest(trie.root))
        ELSE LET d == Boundary(trie.root, trieKey, 0, prLen + 1)
             IN  IF d < 0 THEN prResult.trie = trie
                 ELSE /\ d > prLen
                      /\ prResult.trie.root =
                            ReplaceAt(trie.root, trieKey, 0, d,
                               HashNode(ToDigest(
                                   SubtreeAt(trie.root, trieKey, 0, d))))

\* C13 witness: with kept_prefix_len = 1 the branch at prefix length 1 is
\* still materialized and its child on the key's path is the stub.
C13_Witness ==
    /\ prResult.status = "ok"
    /\ prLen = 1
    /\ Len(trieKey) = 2
    /\ SubtreeAt(prResult.trie.root, trieKey, 0, 1).kind = "Branch"
    /\ SubtreeAt(prResult.trie.root, trieKey, 0, 2).kind = "Hash"
    /\ SubtreeAt(trie.root, trieKey, 0, 2).kind = "Leaf"

\* C14: BranchNode::value_hash yields no value of the branch's own: a key
\* that ends at the branch and a key whose next nibble selects an empty slot
\* both resolve to H256::zero; any other key is resolved by the selected
\* child with the remaining nibbles.
C14_BranchValueHashIsZeroOrChild ==
    vhResult # NoCall =>
        vhResult =
            IF trieKey = <<>> THEN SomeHash(ZeroHash)
            ELSE IF trie.root.children[Head(trieKey)] = NoneNode
                 THEN SomeHash(ZeroHash)
                 ELSE SubTreeValueHash(trie.root.children[Head(trieKey)],
                                       Tail(trieKey))

\* C15: merging is commutative on path-disjoint diffs: when the two diffs
\* replace no common path and agree on nonce and code_hash of the accounts
\* they share, both orders of merge_tx_trie_diff return the same diff.
C15_MergeCommutesOnDisjoint ==
    (/\ mergedAB # NotMerged
     /\ mergedBA # NotMerged
     /\ TxPathDisjoint(diffA, diffB)
     /\ FieldsAgree(diffA, diffB))
        => /\ mergedAB.status = "ok"
           /\ mergedAB = mergedBA

\* C15 witness: two different path-disjoint diffs that share an account and
\* each replace a path were merged in both orders.
C15_Witness ==
    /\ mergedAB.status = "ok"
    /\ mergedBA.status = "ok"
    /\ TxPathDisjoint(diffA, diffB)
    /\ FieldsAgree(diffA, diffB)
    /\ Shared(diffA, diffB) # {}
    /\ Shared(diffA, diffB) # Addresses
    /\ \E p \in DiffPaths : diffA.main_trie_diff[p] # NoReplacement
    /\ \E addr \in Shared(diffA, diffB), p \in DiffPaths :
          diffB.acc_trie_diffs[addr].state_trie_diff[p] # NoReplacement

\* C16: merge_tx_trie_diff produces a merged diff exactly when the two diffs
\* are compatible: the accounts they share agree on nonce and code_hash and
\* the replacements of the paths they share have the same digest.
C16_MergeSucceedsIffCompatible ==
    mergedAB # NotMerged =>
        (mergedAB.status = "ok"
            <=> (FieldsAgree(diffA, diffB) /\ OverlapsAgree(diffA, diffB)))

\* C17: the block create_new_block returns passes verify_consensus against
\* the same previous block: at loop exit its diff is compute_diff of its
\* final time_stamp and its nonce meets the threshold.
C17_MinedBlockVerifies ==
    /\ minePc = "mined" =>
          /\ ComputeDiff(powBlk.time_stamp, prev_blk, diffUnit,
                         debugAssertions)
                = [status |-> "ok", diff |-> powBlk.diff]
          /\ NonceIsValid(powBlk, debugAssertions) = "true"
    /\ (verifyResult # "none" /\ vblk = powBlk) => verifyResult = "Ok"

\* C17 witness: a block mined in three iterations, whose time_stamp and diff
\* changed on the way, was verified.
C17_Witness ==
    /\ ~debugAssertions
    /\ minePc = "mined"
    /\ powBlk.nonce = MaxNonce
    /\ powBlk.diff # prev_blk.diff
    /\ vblk = powBlk
    /\ verifyResult = "Ok"

\* C18 as stated: verify_consensus rejects a diff that is not the recomputed
\* one with the invalid-difficulty error whatever the nonce, rejects a right
\* diff whose digest is above U256::MAX / diff with "Invalid nonce", and
\* returns Ok otherwise.
C18_VerifyChecksBoth ==
    verifyResult # "none" =>
        verifyResult =
            IF vblk.diff # ComputeDiff(vblk.time_stamp, prev_blk, diffUnit,
                                       debugAssertions).diff
            THEN "Invalid difficult."
            ELSE IF vblk.diff > vblk.digest THEN "Invalid nonce"
            ELSE "Ok"

\* C18 as amended: the difficulty is checked first, in every build; the
\* threshold is checked only in a build without debug assertions, where a
\* right diff with a digest above U256::MAX / diff gives "Invalid nonce"; in
\* a build with debug assertions nonce_is_valid is true for every block and
\* a block with the right diff is accepted whatever its nonce.
C18_VerifyChecksBothInRelease ==
    verifyResult # "none" =>
        verifyResult =
            IF vblk.diff # ComputeDiff(vblk.time_stamp, prev_blk, diffUnit,
                                       debugAssertions).diff
            THEN "Invalid difficult."
            ELSE IF ~debugAssertions /\ vblk.diff > vblk.digest
                 THEN "Invalid nonce"
            ELSE "Ok"

\* C18 witness: the mined block with another nonce was rejected for its
\* nonce.
C18_Witness ==
    /\ verifyResult = "Invalid nonce"
    /\ vblk.nonce # powBlk.nonce
    /\ vblk.diff = powBlk.diff

\* C19: the diff of a block is the re-targeting formula of the
\* previous difficulty and the seconds since the previous block (as a u64),
\* for every previous difficulty and time_stamp.
C19_DiffIsFormula ==
    minePc \in {"mining", "mined"} =>
        powBlk.diff =
            AsU64(RetargetFormula(prev_blk.diff,
                                  powBlk.time_stamp - prev_blk.time_stamp),
                  diffUnit)

\* C20: a shutdown() that returns Ok has closed both channels, fired the
\* one-shot and joined the ended task; once the one-shot has fired the event
\* loop comes to its end, after the forward or broadcast in progress and
\* whatever number of None results of the closed streams; and every call of
\* shutdown() completes.
C20_ShutdownCompletes ==
    /\ [](sdResult = "Ok" =>
            /\ reqClosed /\ bpClosed
            /\ shutdown_tx = "None" /\ handle = "None"
            /\ shutdown_rx = "sent" /\ taskPc = "exited")
    /\ (shutdown_rx = "sent") ~> (taskPc \in {"exited", "panicked"})
    /\ (sdPc \in {"close_bp", "send", "join", "await"}) ~> (sdPc = "done")

\* C20 witness: shutdown() returned Ok after the loop took None results of
\* the closed streams with the one-shot already fired.
C20_Witness ==
    /\ sdPc = "done"
    /\ sdResult = "Ok"
    /\ taskPc = "exited"
    /\ noneCount = MaxSpins

\* C21: find_task takes the head of the worker's own deque when it has one;
\* only with an empty deque it steals a batch from the injector, keeping the
\* first task and moving the rest to its deque; only after the injector gave
\* nothing it steals from a peer; and it reports no task only when no steal
\* of the search reported Retry and what it looked at last is empty.
C21_TakeStep(w) ==
    (task[w] = NoTask /\ task'[w] # NoTask) =>
        IF local_task_queue[w] # <<>>
        THEN /\ pc[w] = "find"
             /\ task'[w] = Head(local_task_queue[w])
             /\ local_task_queue' =
                    [local_task_queue EXCEPT ![w] = Tail(local_task_queue[w])]
             /\ task_queue' = task_queue
        ELSE IF pc[w] = "find"
        THEN /\ task_queue # <<>>
             /\ task'[w] = Head(task_queue)
             /\ \E k \in 1..Len(task_queue) :
                   /\ local_task_queue' =
                          [local_task_queue EXCEPT
                              ![w] = SubSeq(task_queue, 2, k)]
                   /\ task_queue' = SubSeq(task_queue, k + 1, Len(task_queue))
        ELSE /\ pc[w] = "peers"
             /\ task_queue' = task_queue
             /\ \E v \in Workers \ {w} :
                   /\ local_task_queue[v] # <<>>
                   /\ task'[w] = Head(local_task_queue[v])
                   /\ local_task_queue' =
                          [local_task_queue EXCEPT
                              ![v] = Tail(local_task_queue[v])]

C21_NoTaskStep(w) ==
    (pc[w] \in {"find", "peers"} /\ pc'[w] = "flag") =>
        /\ local_task_queue[w] = <<>>
        /\ IF pc[w] = "find"
           THEN Stealers(w) = <<>> /\ task_queue = <<>>
           ELSE /\ ~sawRetry[w]
                /\ peerIdx[w] = Len(Stealers(w))
                /\ local_task_queue[Stealers(w)[peerIdx[w]]] = <<>>

C21_PeersStep(w) ==
    (pc[w] = "find" /\ pc'[w] = "peers") =>
        /\ local_task_queue[w] = <<>>
        /\ task'[w] = NoTask
        /\ sawRetry'[w] = (task_queue # <<>>)

\* C21, for every worker and every step
C21_FindTaskOrder ==
    [][\A w \in Workers :
          C21_TakeStep(w) /\ C21_NoTaskStep(w) /\ C21_PeersStep(w)]_vars

\* C21 witness: one worker holds the first task of a batch it stole from the
\* injector with the rest of the batch in its deque, and the other worker,
\* which got nothing from the injector, is about to steal from that deque.
C21_Witness ==
    \E w \in Workers :
        \E v \in Workers \ {w} :
            /\ pc[w] = "exec" /\ task[w] = 1
            /\ local_task_queue[w] = <<2>>
            /\ task_queue = <<>>
            /\ pc[v] = "peers"
            /\ Stealers(v)[peerIdx[v]] = w

\* C22: remaining_tasks never underflows: in every state it is the number of
\* fetch_adds of push_task less the failed executions and the successful
\* pops, it is at least the number of results queued or popped with their
\* fetch_sub still to come, and a task is executed (so fails or yields its
\* one result) at most once and only after its fetch_add.
C22_CounterNeverUnderflows ==
    /\ remaining_tasks = Pushed - nFail - nPop
    /\ remaining_tasks >= Len(result_queue) + PopInProgress
    /\ remaining_tasks >= 0
    /\ \A t \in Tasks :
          /\ execCount[t] <= 1
          /\ resCount[t] <= execCount[t]
          /\ execCount[t] >= 1 => t <= Pushed

\* C22 witness: after one failed execution the only result has been popped
\* and its fetch_sub is still to come: the counter is 1.
C22_Witness ==
    /\ consPc = "sub"
    /\ result_queue = <<>>
    /\ nFail = 1
    /\ Pushed = MaxTasks
    /\ remaining_tasks = 1

\* C23: the unparker queue never overflows: in every state it holds at most
\* one unparker per worker, each of a worker that is in park and has not been
\* unparked, so at most NumWorkers entries, and no worker has panicked on
\* the push of its unparker.
C23_UnparkerQueueBounded ==
    /\ Len(unparker_queue) <= NumWorkers
    /\ \A w \in Workers :
          /\ pc[w] # "panicked"
          /\ Cardinality({i \in DOMAIN unparker_queue :
                             unparker_queue[i] = w}) <= 1
          /\ (\E i \in DOMAIN unparker_queue : unparker_queue[i] = w) =>
                 pc[w] = "park" /\ ~token[w]

\* C23 witness: every worker has registered its unparker and is parked: the
\* queue is full; a task has been pushed and taken before.
C23_Witness ==
    /\ Len(unparker_queue) = NumWorkers
    /\ \A w \in Workers : pc[w] = "park"
    /\ Pushed >= 1
    /\ dropPc = "live"

\* C24: for every proposal a storage node's commit hands to the DB,
\* block.tx_list is the list of the digests of the proposal's transactions
\* in the same order, and the batch holds, for every entry of tx_list, the
\* transaction with that digest under that key.
C24_TxListMatchesTxs ==
    (commitFn = "storage" /\ commitPc \in {"writing", "resume"}) =>
        /\ commitProp.block.tx_list = commitProp.txs
        /\ db_tx.txs = {<<commitProp.block.tx_list[i], commitProp.txs[i]>> :
                           i \in 1..Len(commitProp.block.tx_list)}

\* C25: the memoized digest of a branch stays consistent: in every state
\* to_digest of a branch is branch_node_hash of the digests of the children
\* it has now, and so was the digest the last to_digest call returned.
C25_MemoizedDigestConsistent ==
    /\ \A x \in BranchNames :
          ToDigest(branches[x]) = BranchNodeHash(ChildDigests(branches[x]))
    /\ \A x \in BranchNames :
          (branchDigest.of = x /\ branches[x].node_hash # NoHash) =>
              branches[x].node_hash = branchDigest.digest

\* C26 as stated: with kept_prefix_len >= 1, prune_key returns the trie as
\* it was when the key is absent from the trie (it diverges from an
\* extension or selects an empty branch slot, wherever on its path), and
\* when its path reaches a leaf that starts at a prefix length <=
\* kept_prefix_len.
C26_UnchangedWhenAbsent ==
    (prResult.status # "none" /\ prLen >= 1 /\ trie.root # NoneNode) =>
        LET e == PathEnd(trie.root, trieKey, 0)
        IN  (\/ e.how \in {"diverge", "empty"}
             \/ e.how = "leaf" /\ e.at <= prLen) =>
                /\ prResult.status = "ok"
                /\ Structure(prResult.trie.root) = Structure(trie.root)

\* C26 as amended: with kept_prefix_len >= 1, prune_key returns the trie as
\* it was when the diverging extension, the branch with the empty slot or
\* the leaf starts at a prefix length <= kept_prefix_len.  An absent key
\* whose path leaves the trie at a node that starts beyond kept_prefix_len
\* gets no unchanged trie: the first node beyond kept_prefix_len is
\* collapsed.
C26_UnchangedWhenWalkEndsInside ==
    (prResult.status # "none" /\ prLen >= 1 /\ trie.root # NoneNode) =>
        LET e == PathEnd(trie.root, trieKey, 0)
        IN  /\ (e.how \in {"diverge", "empty", "leaf"} /\ e.at <= prLen) =>
                  /\ prResult.status = "ok"
                  /\ Structure(prResult.trie.root) = Structure(trie.root)
            /\ (e.how \in {"diverge", "empty"} /\ e.at > prLen) =>
                  /\ prResult.status = "ok"
                  /\ Structure(prResult.trie.root) # Structure(trie.root)

\* C26 witness: prune_key with kept_prefix_len 1 has returned unchanged a
\* trie in which the key selects an empty slot of the branch at prefix
\* length 1.
C26_Witness ==
    /\ prResult.status = "ok"
    /\ prLen = 1
    /\ trie.root.kind = "Branch"
    /\ PathEnd(trie.root, trieKey, 0) = [how |-> "empty", at |-> 1]
    /\ prResult.trie = trie

\* C27 as stated: prune_key returns an error, and no trie, in exactly these
\* cases: the root is empty (also with kept_prefix_len 0); or, with
\* kept_prefix_len >= 1, the key's path reaches a Hash stub that starts at a
\* prefix length <= kept_prefix_len, or the key is exhausted at a branch.  A
\* root that is a Hash stub is accepted with kept_prefix_len 0.
C27_ErrorCases ==
    prResult.status # "none" =>
        LET e == IF trie.root = NoneNode THEN [how |-> "none", at |-> 0]
                 ELSE PathEnd(trie.root, trieKey, 0)
        IN  /\ prResult.status # "ok" <=>
                  \/ trie.root = NoneNode
                  \/ prLen >= 1 /\ e.how = "hash" /\ e.at <= prLen
                  \/ prLen >= 1 /\ e.how = "key_end"
            /\ prResult.status # "ok" => prResult.trie = EmptyTrie
            /\ (prLen = 0 /\ trie.root.kind = "Hash") =>
                  prResult.status = "ok"

\* C27 as amended: the error cases are the empty root (also with
\* kept_prefix_len 0) and, with kept_prefix_len >= 1, a Hash stub or a
\* branch at which the key is exhausted that starts at a prefix length <=
\* kept_prefix_len on the key's path.  A key exhausted at a branch that
\* starts beyond kept_prefix_len is no error: that branch is collapsed.
\* With kept_prefix_len 0 every non-empty root, a Hash stub too, gives the
\* root-hash stub.
C27_ErrorCasesInsideWalk ==
    prResult.status # "none" =>
        LET e == IF trie.root = NoneNode THEN [how |-> "none", at |-> 0]
                 ELSE PathEnd(trie.root, trieKey, 0)
        IN  /\ prResult.status = "err_empty" <=> trie.root = NoneNode
            /\ prResult.status = "err_pruned" <=>
                  (prLen >= 1 /\ e.how = "hash" /\ e.at <= prLen)
            /\ prResult.status = "err_branch" <=>
                  (prLen >= 1 /\ e.how = "key_end" /\ e.at <= prLen)
            /\ prResult.status \in
                  {"ok", "err_empty", "err_pruned", "err_branch"}
            /\ prResult.status # "ok" => prResult.trie = EmptyTrie
            /\ (prLen = 0 /\ trie.root # NoneNode) =>
                  prResult = PruneOk(FromRootHash(ToDigest(trie.root)))

\* C27 witness: prune_key with kept_prefix_len 1 has failed on a key that
\* is exhausted at the branch at prefix length 1.
C27_Witness ==
    /\ prResult.status = "err_branch"
    /\ prLen = 1
    /\ PathEnd(trie.root, trieKey, 0) = [how |-> "key_end", at |-> 1]

\* C28: prune_key is idempotent: whenever prune_key(t, k, n) returned a trie
\* t', prune_key(t', k, n) returns a trie too, structurally equal to t'.
C28_PruneIdempotent ==
    prResult.status = "ok" =>
        LET again == PruneKey(prResult.trie, trieKey, prLen)
        IN  /\ again.status = "ok"
            /\ Structure(again.trie.root) = Structure(prResult.trie.root)

\* C28 witness: prune_key with kept_prefix_len 1 has left a stub at prefix
\* length 2 of the key's path, below two materialized nodes, and pruning the
\* result again gives the result.
C28_Witness ==
    /\ prResult.status = "ok"
    /\ prLen = 1
    /\ prResult.trie # trie
    /\ PathEnd(prResult.trie.root, trieKey, 0) = [how |-> "hash", at |-> 2]
    /\ PathEnd(trie.root, trieKey, 0).how # "hash"
    /\ PruneKey(prResult.trie, trieKey, prLen) = prResult

\* C29: the diff merge_tx_trie_diff(lhs, rhs) returns holds exactly the
\* accounts of lhs and rhs: an account of one diff only is copied as it is;
\* an account of both has the nonce and the code_hash of lhs and the
\* merge_diff of the two state trie diffs; the main trie diff is the
\* merge_diff of the two main trie diffs; and the call changes neither
\* input.
C29_ResultContents ==
    mergedAB.status = "ok" =>
        /\ mergedAB.diff.main_trie_diff =
               MergeDiff(diffA.main_trie_diff, diffB.main_trie_diff)
        /\ \A addr \in Addresses :
              LET l == diffA.acc_trie_diffs[addr]
                  r == diffB.acc_trie_diffs[addr]
                  m == mergedAB.diff.acc_trie_diffs[addr]
              IN  /\ (l = NoAccount /\ r = NoAccount) => m = NoAccount
                  /\ (l # NoAccount /\ r = NoAccount) => m = l
                  /\ (l = NoAccount /\ r # NoAccount) => m = r
                  /\ (l # NoAccount /\ r # NoAccount) =>
                        /\ m.nonce = l.nonce
                        /\ m.code_hash = l.code_hash
                        /\ m.state_trie_diff =
                               MergeDiff(l.state_trie_diff, r.state_trie_diff)

\* C29, with its frame: the contents above in every state, and no step
\* changes diffA or diffB
C29_MergeContents ==
    /\ []C29_ResultContents
    /\ [][diffA' = diffA /\ diffB' = diffB]_vars

\* C29 witness: a merge has returned for an account of both diffs that
\* differ in its nonce and in its state paths, and an account of rhs only:
\* the merged account has the nonce of lhs.
C29_Witness ==
    /\ mergedAB.status = "ok"
    /\ diffA.acc_trie_diffs[1] # NoAccount
    /\ diffB.acc_trie_diffs[1] # NoAccount
    /\ diffA.acc_trie_diffs[1].nonce = 1
    /\ diffB.acc_trie_diffs[1].nonce = NoneValue
    /\ diffA.acc_trie_diffs[1].state_trie_diff[1] = NoReplacement
    /\ diffB.acc_trie_diffs[1].state_trie_diff[1] = 2
    /\ diffA.acc_trie_diffs[2] = NoAccount
    /\ diffB.acc_trie_diffs[2] # NoAccount
    /\ mergedAB.diff.acc_trie_diffs[1].nonce = 1
    /\ mergedAB.diff.acc_trie_diffs[1].state_trie_diff[1] = 2

\* C30: the difficulty stays in range: for a previous difficulty d >= 1 and a
\* time_stamp not before the previous block's, the diff compute_diff gives a
\* block lies between d - 99 * (d / 2048) and d + d / 2048, so it is not 0.
C30_DiffInRange ==
    (/\ minePc \in {"mining", "mined"}
     /\ prev_blk.diff >= 1
     /\ powBlk.time_stamp >= prev_blk.time_stamp) =>
        /\ powBlk.diff >= prev_blk.diff - 99 * (prev_blk.diff \div 2048)
        /\ powBlk.diff <= prev_blk.diff + (prev_blk.diff \div 2048)
        /\ powBlk.diff > 0

\* the first topic of a gossip event is known and in the configured set
C31_Accepted(event) ==
    /\ event.kind = "Message"
    /\ Len(event.topics) > 0
    /\ event.topics[1] \in DOMAIN TOPIC_MAP
    /\ TOPIC_MAP[event.topics[1]] \in topics

\* an inject_event step: one event of the topic's kind at the back of the
\* queue for an accepted message, the queue as it was for a message with
\* another first topic
C31_InjectStep ==
    pubsubLast'.op = "inject" =>
        LET event == pubsubLast'.event
        IN  /\ C31_Accepted(event) =>
                /\ Len(pending_events') = Len(pending_events) + 1
                /\ SubSeq(pending_events', 1, Len(pending_events))
                       = pending_events
                /\ pending_events'[Len(pending_events')].kind
                       = TOPIC_MAP[event.topics[1]]
            /\ (/\ event.kind = "Message"
                /\ Len(event.topics) > 0
                /\ ~C31_Accepted(event)) =>
                    pending_events' = pending_events

\* a poll_inner step: the front of the queue, removed, or Pending
C31_PollStep ==
    pubsubLast'.op = "poll" =>
        IF Len(pending_events) > 0
        THEN /\ pubsubLast'.result
                    = [kind |-> "Ready", event |-> Head(pending_events)]
             /\ pending_events' = Tail(pending_events)
        ELSE /\ pubsubLast'.result = [kind |-> "Pending"]
             /\ pending_events' = pending_events

\* C31: PubSub event delivery: inject_event puts exactly one event of the
\* matching kind in the queue for each gossip message whose first topic is
\* known and in the configured topic set, and nothing for a message on an
\* unknown topic or on one outside the set; poll_inner gives the queued
\* events one per poll in arrival order, and Pending on an empty queue.
C31_EventDelivery == [][C31_InjectStep /\ C31_PollStep]_vars
====
